---- MODULE Spec2Model ----
(***************************************************************************)
(* A model of the Loxone Prometheus exporter.                              *)
(*                                                                         *)
(*   Spec      the session runner of one Miniserver (LoxoneClient.run):    *)
(*             connect, authenticate, structure load, subscribe, receive   *)
(*             loop, keepalive task, teardown, backoff, cancellation, and  *)
(*             the state mirror it writes (MiniserverState).               *)
(*   SpecMain  the supervisor of __main__._run: the task group, the        *)
(*             shutdown event and the signal handler.                      *)
(***************************************************************************)
EXTENDS Integers, Sequences, FiniteSets, Bags, TLC

(***************************************************************************)
(* Bounds of the model.                                                    *)
(***************************************************************************)
\* frames received in the receive loops of one run (each advances the clock)
MaxNow == 2
\* consecutive backoff sleeps followed without a successful setup in between
MaxSleeps == 7
\* records in one VALUE / TEXT payload
MaxRecs == 1
\* client tasks started by the supervisor
NumClients == 2
\* bytes of the text of a TEXT record, its NUL included
TextLen == 3
\* keepalive intervals that pass in a receive loop without a frame
MaxTicks == 3
\* interval sleeps of the OTLP push loop that end
MaxCycles == 2
\* calls of OTLPExporter.stop
MaxStops == 2

(***************************************************************************)
(* Program constants.                                                      *)
(***************************************************************************)
BaseBackoff == 1
MaxBackoff == 30
keepalive_interval == 30
keepalive_timeout == 60
HEADER_SIZE == 8
VALUE_ENTRY_SIZE == 24
MSG_VALUE_STATES == 2
MSG_TEXT_STATES == 3
MSG_DAYTIMER_STATES == 4
MSG_OUT_OF_SERVICE == 5
MSG_KEEPALIVE == 6
BASE_DELAY == 1
MULTIPLIER == 2
MAX_DELAY == 300
MAX_FAILURES == 10

\* Python's None for StateEntry.value / StateEntry.text, room_uuid, cat_uuid
None == "None"

Min(a, b) == IF a <= b THEN a ELSE b

EmptyMap == [x \in {} |-> x]

\* dict assignment m[k] = v
Put(m, k, v) == [x \in DOMAIN m \cup {k} |-> IF x = k THEN v ELSE m[x]]

(***************************************************************************)
(* structure.py: the structure parser.                                     *)
(*                                                                         *)
(* A raw JSON object is modelled with its dicts as sequences of            *)
(* <<key, value>> pairs in document order (keys unique, as json.loads      *)
(* leaves them).  A raw control is                                         *)
(*   [name, type, room, cat, states : Seq(<<state-name, state-uuid>>),     *)
(*    subControls : Seq(<<uuid, raw control>>)]                            *)
(***************************************************************************)
TEXT_ONLY_TYPES == {"TextInput", "Webpage", "TextState"}

text_state_names == {"textAndIcon", "text", "textColor", "textInput"}

digital_types == {"Switch", "TimedSwitch", "Pushbutton", "InfoOnlyDigital",
                  "PresenceDetector", "SmokeAlarm"}

is_text_only(control_type, raw_states) ==
    \/ control_type \in TEXT_ONLY_TYPES
    \/ /\ raw_states # <<>>
       /\ \A i \in DOMAIN raw_states : raw_states[i][1] \in text_state_names

\* StateEntry(state_uuid, state_name, is_digital): value and text start None
StateEntry(state_uuid, state_name, is_digital) ==
    [state_uuid |-> state_uuid, state_name |-> state_name,
     value |-> None, text |-> None, is_digital |-> is_digital]

StateRef(control_uuid, state_name) ==
    [control_uuid |-> control_uuid, state_name |-> state_name]

\* raw.get("room", "") or None
OrNone(s) == IF s = "" THEN None ELSE s

\* the loop of _parse_control over raw_states.items(): the states dict
RECURSIVE ParseStates(_, _, _)
ParseStates(raw_states, is_digital_type, states) ==
    IF raw_states = <<>> THEN states
    ELSE LET state_name == Head(raw_states)[1]
             state_uuid == Head(raw_states)[2]
             is_digital == is_digital_type /\ state_name \in {"active", "value"}
         IN ParseStates(Tail(raw_states), is_digital_type,
                        Put(states, state_name,
                            StateEntry(state_uuid, state_name, is_digital)))

\* the same loop's writes to the shared state_map: a later write of the same
\* state uuid replaces the earlier one
RECURSIVE MapStates(_, _, _)
MapStates(raw_states, uuid_str, state_map) ==
    IF raw_states = <<>> THEN state_map
    ELSE MapStates(Tail(raw_states), uuid_str,
                   Put(state_map, Head(raw_states)[2],
                       StateRef(uuid_str, Head(raw_states)[1])))

RECURSIVE parse_control(_, _, _)
RECURSIVE ParseSubControls(_, _, _, _, _)

\* variant: each sub-control is parsed into a state_map of its own, which
\* is dropped
ParseSubControlsOwnMap(raw_subs, room_uuid, cat_uuid, sub_controls, state_map) ==
    IF raw_subs = <<>> THEN [sub_controls |-> sub_controls, state_map |-> state_map]
    ELSE LET r == parse_control(Head(raw_subs)[1], Head(raw_subs)[2], EmptyMap)
             sub_ctrl == [r.control EXCEPT !.room_uuid = room_uuid,
                                           !.cat_uuid = cat_uuid]
         IN ParseSubControls(Tail(raw_subs), room_uuid, cat_uuid,
                             Append(sub_controls, sub_ctrl), state_map)

\* the loop of _parse_control over raw["subControls"]: returns the list of
\* sub-controls (room and category inherited) and the state_map after them
ParseSubControls(raw_subs, room_uuid, cat_uuid, sub_controls, state_map) ==
    IF raw_subs = <<>> THEN [sub_controls |-> sub_controls, state_map |-> state_map]
    ELSE LET r == parse_control(Head(raw_subs)[1], Head(raw_subs)[2], state_map)
             sub_ctrl == [r.control EXCEPT !.room_uuid = room_uuid,
                                           !.cat_uuid = cat_uuid]
         IN ParseSubControls(Tail(raw_subs), room_uuid, cat_uuid,
                             Append(sub_controls, sub_ctrl), r.state_map)

\* _parse_control: returns the Control and the state_map it has written to
parse_control(uuid_str, raw, state_map) ==
    LET ctrl_type == raw.type
        is_text == is_text_only(ctrl_type, raw.states)
        is_digital_type == ctrl_type \in digital_types
        states == ParseStates(raw.states, is_digital_type, EmptyMap)
        sm1 == MapStates(raw.states, uuid_str, state_map)
        room_uuid == OrNone(raw.room)
        cat_uuid == OrNone(raw.cat)
        subs == ParseSubControls(raw.subControls, room_uuid, cat_uuid, <<>>, sm1)
    IN [control |-> [uuid |-> uuid_str, name |-> raw.name, type |-> ctrl_type,
                     room_uuid |-> room_uuid, cat_uuid |-> cat_uuid,
                     states |-> states, sub_controls |-> subs.sub_controls,
                     is_text_only |-> is_text],
        state_map |-> subs.state_map]

\* the loop of parse_structure over data["controls"]
RECURSIVE ParseControls(_, _, _)
ParseControls(raw_controls, controls, state_map) ==
    IF raw_controls = <<>> THEN [controls |-> controls, state_map |-> state_map]
    ELSE LET r == parse_control(Head(raw_controls)[1], Head(raw_controls)[2], state_map)
         IN ParseControls(Tail(raw_controls),
                          Put(controls, Head(raw_controls)[1], r.control),
                          r.state_map)

RECURSIVE ParseRooms(_, _)
ParseRooms(raw_rooms, rooms) ==
    IF raw_rooms = <<>> THEN rooms
    ELSE ParseRooms(Tail(raw_rooms),
                    Put(rooms, Head(raw_rooms)[1],
                        [uuid |-> Head(raw_rooms)[1], name |-> Head(raw_rooms)[2]]))

RECURSIVE ParseCats(_, _)
ParseCats(raw_cats, categories) ==
    IF raw_cats = <<>> THEN categories
    ELSE ParseCats(Tail(raw_cats),
                   Put(categories, Head(raw_cats)[1],
                       [uuid |-> Head(raw_cats)[1], name |-> Head(raw_cats)[2],
                        type |-> Head(raw_cats)[3]]))

\* parse_structure: (controls, rooms, categories, state_map)
parse_structure(data) ==
    LET r == ParseControls(data.controls, EmptyMap, EmptyMap)
    IN [controls |-> r.controls,
        rooms |-> ParseRooms(data.rooms, EmptyMap),
        categories |-> ParseCats(data.cats, EmptyMap),
        state_map |-> r.state_map]

(***************************************************************************)
(* Inputs: the structure files a Miniserver may send.                      *)
(***************************************************************************)
RawControl(name, type, room, cat, states, subControls) ==
    [name |-> name, type |-> type, room |-> room, cat |-> cat,
     states |-> states, subControls |-> subControls]

RawStructure(controls, msInfoKind, miniserverType) ==
    [rooms |-> << <<"r1", "Kitchen">> >>,
     cats |-> << <<"k1", "Lighting", "lights">> >>,
     controls |-> controls,
     msInfo |-> [kind |-> msInfoKind, serialNr |-> "504F94A0",
                 miniserverType |-> miniserverType],
     softwareVersion |-> "14.5.12.7"]

\* two top-level controls
FlatControls ==
    << <<"c1", RawControl("Kitchen Light", "Switch", "r1", "k1",
                          << <<"active", "s1">> >>, <<>>)>>,
       <<"c2", RawControl("Outside", "InfoOnlyAnalog", "", "",
                          << <<"value", "s2">> >>, <<>>)>> >>

\* a control with a sub-control that has a sub-control of its own
DeepControls ==
    << <<"c1", RawControl("Living Room", "IRoomControllerV2", "r1", "k1",
                          << <<"tempActual", "s1">> >>,
             << <<"c2", RawControl("Heating", "Dimmer", "", "",
                                   << <<"value", "s2">> >>,
                  << <<"c3", RawControl("Valve", "InfoOnlyAnalog", "", "",
                                        << <<"value", "s3">> >>, <<>>)>> >>)>> >>)>> >>

\* two controls that name the same state uuid
SharedControls ==
    << <<"c1", RawControl("Kitchen Light", "Switch", "r1", "k1",
                          << <<"active", "s1">> >>, <<>>)>>,
       <<"c2", RawControl("Kitchen Status", "TextState", "r1", "",
                          << <<"textAndIcon", "s1">> >>, <<>>)>> >>

Structures ==
    { RawStructure(FlatControls, "dict", 0),
      RawStructure(DeepControls, "dict", 2),
      RawStructure(SharedControls, "absent", 0),
      RawStructure(<<>>, "dict", 1),
      RawStructure(<<>>, "scalar", 0) }

\* structure.get("msInfo", {}).get("serialNr", ""): a msInfo that is no
\* object has no get() and raises AttributeError
SerialOf(data) ==
    IF data.msInfo.kind = "dict" THEN data.msInfo.serialNr ELSE ""

MsInfoRaises(data) == data.msInfo.kind = "scalar"

(***************************************************************************)
(* loxone_protocol.py: frames.                                             *)
(*                                                                         *)
(* A header is [msg_type, exact_length, estimated].  A payload (the bytes after a     *)
(* header, in the same frame or in the next one) is [recs, extra]: the     *)
(* complete records it holds, laid out for the announced type, and the     *)
(* trailing bytes that form no record.  A record is <<state uuid, v>>.     *)
(***************************************************************************)
MsgTypes == {MSG_VALUE_STATES, MSG_TEXT_STATES, MSG_DAYTIMER_STATES,
             MSG_OUT_OF_SERVICE, MSG_KEEPALIVE}

StateIds == {"s1", "s2", "s3", "s9"}

Values == {"0.0", "1.0"}

Texts == {"on"}

\* bytes that cannot hold a record of either kind: none, or as many as a header
Extras == {0, HEADER_SIZE}

SeqsUpTo(S, n) == UNION {[1..k -> S] : k \in 0..n}

ValuePayloads == [recs : SeqsUpTo(StateIds \X Values, MaxRecs), extra : Extras]

TextPayloads == [recs : SeqsUpTo(StateIds \X Texts, MaxRecs), extra : Extras]

OtherPayloads == [recs : {<<>>}, extra : Extras]

PayloadsFor(msg_type) ==
    IF msg_type = MSG_VALUE_STATES THEN ValuePayloads
    ELSE IF msg_type = MSG_TEXT_STATES THEN TextPayloads
    ELSE OtherPayloads

\* a TEXT record: 16 B uuid, 16 B icon uuid, 4 B length, then the text (NUL
\* included) padded to a 4-byte boundary
TEXT_MIN_ENTRY == 36

Padded(text_len) == text_len + ((4 - (text_len % 4)) % 4)

TEXT_ENTRY_SIZE == TEXT_MIN_ENTRY + Padded(TextLen)

\* len(payload)
PayloadLen(msg_type, payload) ==
    Len(payload.recs) * (IF msg_type = MSG_TEXT_STATES THEN TEXT_ENTRY_SIZE
                         ELSE VALUE_ENTRY_SIZE) + payload.extra

\* the payload lengths a header announces: none, or whole records
DeclaredLengths ==
    {0} \cup {n * VALUE_ENTRY_SIZE : n \in 1..MaxRecs}
        \cup {n * TEXT_ENTRY_SIZE : n \in 1..MaxRecs}

\* parse_header: the estimated bit is set only on headers that announce a
\* payload (a corrected header follows them, then the payload)
Headers ==
    {h \in [msg_type : MsgTypes, exact_length : DeclaredLengths, estimated : BOOLEAN] :
        h.estimated => h.exact_length > 0}

\* parse_value_states / parse_text_states: the complete records, in order
parse_value_states(payload) == payload.recs

parse_text_states(payload) == payload.recs

(***************************************************************************)
(* State.                                                                  *)
(***************************************************************************)
VARIABLES
    \* LoxoneClient.run: the await it is suspended at
    \*   "connect"    websockets.connect(uri)
    \*   "auth"       authenticate(ws, ...)
    \*   "structure"  ws.recv() of the structure file
    \*   "subscribe"  ws.recv() of the enablebinstatusupdate response
    \*   "receive"    async for message in ws
    \*   "payload"    ws.recv() of the payload announced by a header
    \*   "processed"  _process_message has returned (no await: the loop goes
    \*                on to its next message before any other task runs)
    \*   "teardown"   await self._keepalive_task, in the finally block
    \*   "closing"    the exit of async with websockets.connect (ws.close())
    \*   "sleep"      asyncio.sleep(self._backoff)
    \*   "done"       run() has ended;  "crashed": ended by an exception
    pc,
    pending,         \* the exception propagating through finally / async with
    cancelled,       \* cancel() has been called on the task of run()
    backoff,         \* self._backoff
    ktask,           \* self._keepalive_task: none, running, cancelling,
                     \* finished (returned), failed (ended by an exception)
    hdr,             \* the header whose payload is awaited
    \* MiniserverState
    connected, last_update_ts, controls, rooms, categories, state_map,
    serial, firmware,
    now,             \* the wall clock
    \* history
    slept,           \* the backoff sleeps since the last successful setup
    structure,       \* the structure file last parsed
    last,            \* what the last step did
    idle,            \* seconds since the last frame (time.monotonic() -
                     \* self._last_recv_time), while in the receive loop
    out_of_service   \* an OUT_OF_SERVICE message ended the receive loop and
                     \* no connection attempt has started since

clientVars == <<pc, pending, cancelled, backoff, ktask, hdr, connected,
                last_update_ts, controls, rooms, categories, state_map,
                serial, firmware, now, slept, structure, last, idle,
                out_of_service>>

VARIABLES
    \* __main__._run: the task group
    task,            \* each task: absent, running, returned, cancelled, failed
    cancelReq,       \* cancel() called on the task and not yet delivered
    seen,            \* TaskGroup._on_task_done has run for the task
    shutdown_event,  \* the asyncio.Event set by the signal handler
    aborting,        \* TaskGroup._aborting
    errors,          \* TaskGroup._errors is not empty
    parentCancel,    \* cancel() called on the task of _run() from outside
    runState,        \* _run(): waiting (in the exit of the group), returned, raised
    otlpStops,       \* calls of OTLPExporter.stop()
    shutdownRaised   \* _wait_for_shutdown has raised after the event

mainVars == <<task, cancelReq, seen, shutdown_event, aborting, errors,
              parentCancel, runState, otlpStops, shutdownRaised>>

NoHdr == [msg_type |-> 0, exact_length |-> 0, estimated |-> FALSE]

NoStructure == RawStructure(<<>>, "none", 0)

NoOp == [op |-> "none"]

\* LoxoneClient.__init__ and MiniserverState(name=...)
ClientInit ==
    /\ pc = "connect"
    /\ pending = "none"
    /\ cancelled = FALSE
    /\ backoff = BaseBackoff
    /\ ktask = "none"
    /\ hdr = NoHdr
    /\ connected = FALSE
    /\ last_update_ts = 0
    /\ controls = EmptyMap
    /\ rooms = EmptyMap
    /\ categories = EmptyMap
    /\ state_map = EmptyMap
    /\ serial = ""
    /\ firmware = ""
    /\ now = 0
    /\ slept = <<>>
    /\ structure = NoStructure
    /\ last = NoOp
    /\ idle = 0
    /\ out_of_service = FALSE

mirrorVars == <<last_update_ts, controls, rooms, categories, state_map,
                serial, firmware>>

(***************************************************************************)
(* LoxoneClient._process_message.                                          *)
(***************************************************************************)
\* the scan of one parent's sub_controls: the first sub-control with the
\* uuid and the state name gets the value (then: break)
SetFirstMatch(sub_controls, ref, value) ==
    LET hits == {i \in DOMAIN sub_controls :
                   /\ sub_controls[i].uuid = ref.control_uuid
                   /\ ref.state_name \in DOMAIN sub_controls[i].states}
    IN IF hits = {} THEN sub_controls
       ELSE LET i == CHOOSE j \in hits : \A k \in hits : j <= k
            IN [sub_controls EXCEPT ![i].states[ref.state_name].value = value]

\* the sub-controls the update of a VALUE record looks at
ValueScan(ctrls, ref, value) ==
    [p \in DOMAIN ctrls |->
        [ctrls[p] EXCEPT !.sub_controls = SetFirstMatch(@, ref, value)]]

\* variant: a record that repeats the stored value of a state clears it
ApplyValueClearing(ctrls, smap, uuid_str, value) ==
    IF uuid_str \notin DOMAIN smap THEN ctrls
    ELSE LET ref == smap[uuid_str]
         IN IF /\ ref.control_uuid \in DOMAIN ctrls
               /\ ref.state_name \in DOMAIN ctrls[ref.control_uuid].states
            THEN [ctrls EXCEPT ![ref.control_uuid].states[ref.state_name].value =
                                  IF @ = value THEN None ELSE value]
            ELSE ValueScan(ctrls, ref, value)

\* one record of a VALUE batch
ApplyValue(ctrls, smap, uuid_str, value) ==
    IF uuid_str \notin DOMAIN smap THEN ctrls
    ELSE LET ref == smap[uuid_str]
         IN IF /\ ref.control_uuid \in DOMAIN ctrls
               /\ ref.state_name \in DOMAIN ctrls[ref.control_uuid].states
            THEN [ctrls EXCEPT ![ref.control_uuid].states[ref.state_name].value = value]
            ELSE ValueScan(ctrls, ref, value)

RECURSIVE ApplyValues(_, _, _)
ApplyValues(ctrls, smap, entries) ==
    IF entries = <<>> THEN ctrls
    ELSE ApplyValues(ApplyValue(ctrls, smap, Head(entries)[1], Head(entries)[2]),
                     smap, Tail(entries))

\* one record of a TEXT batch: top-level controls only
ApplyText(ctrls, smap, uuid_str, text) ==
    IF uuid_str \notin DOMAIN smap THEN ctrls
    ELSE LET ref == smap[uuid_str]
         IN IF /\ ref.control_uuid \in DOMAIN ctrls
               /\ ref.state_name \in DOMAIN ctrls[ref.control_uuid].states
            THEN [ctrls EXCEPT ![ref.control_uuid].states[ref.state_name].text = text]
            ELSE ctrls

RECURSIVE ApplyTexts(_, _, _)
ApplyTexts(ctrls, smap, entries) ==
    IF entries = <<>> THEN ctrls
    ELSE ApplyTexts(ApplyText(ctrls, smap, Head(entries)[1], Head(entries)[2]),
                    smap, Tail(entries))

\* _process_message raises ConnectionClosed
ProcessRaises(header) == header.msg_type = MSG_OUT_OF_SERVICE

\* the mirror after _process_message(header + payload) at wall-clock time t
ProcessedControls(header, payload) ==
    IF header.msg_type = MSG_VALUE_STATES
    THEN ApplyValues(controls, state_map, parse_value_states(payload))
    ELSE IF header.msg_type = MSG_TEXT_STATES
    THEN ApplyTexts(controls, state_map, parse_text_states(payload))
    ELSE controls

ProcessedTs(header, payload, t) ==
    IF header.msg_type = MSG_VALUE_STATES /\ parse_value_states(payload) # <<>>
    THEN t
    ELSE last_update_ts

(***************************************************************************)
(* LoxoneClient.run: exceptions.                                           *)
(***************************************************************************)
\* variant: run() without its except Exception clause
ExceptClauseNoCatchAll(exc) ==
    IF exc = "CancelledError" THEN "cancelled"
    ELSE IF exc = "AuthenticationError" THEN "auth"
    ELSE IF exc \in {"ConnectionClosed", "WebSocketException", "OSError"}
    THEN "connection"
    ELSE "uncaught"

\* the except clause of run() that catches an exception raised in its try
ExceptClause(exc) ==
    IF exc = "CancelledError" THEN "cancelled"
    ELSE IF exc = "AuthenticationError" THEN "auth"
    ELSE IF exc \in {"ConnectionClosed", "WebSocketException", "OSError"}
    THEN "connection"
    ELSE "unexpected"

\* variant: connected is left as it is before the backoff sleep
BackoffConnectedKept(c) == c

\* self._state.connected = False, the statement before the backoff sleep
BackoffConnected(c) == FALSE

\* the end of the try statement of run(): exc has left the async with block
\* ("none": the block ended normally)
Dispatch(exc) ==
    LET clause == IF exc = "none" THEN "none" ELSE ExceptClause(exc)
    IN /\ pending' = "none"
       /\ IF clause = "cancelled" THEN connected' = FALSE /\ pc' = "done"
          ELSE IF clause = "uncaught" THEN pc' = "crashed" /\ UNCHANGED connected
          ELSE connected' = BackoffConnected(connected) /\ pc' = "sleep"

\* the exception the keepalive task ended with, raised again by awaiting it
KeepaliveError == "Exception"

\* the finally block of run(), entered with exc propagating ("none": the
\* receive loop ended): a running keepalive task is cancelled and awaited; a
\* task that is already done is awaited without suspending, and when it ended
\* by an exception the await raises it and the rest of the block is skipped
Unwind(exc) ==
    IF ktask = "running"
    THEN /\ ktask' = "cancelling"
         /\ pc' = "teardown"
         /\ pending' = exc
         /\ UNCHANGED connected
    ELSE IF ktask = "failed"
    THEN /\ pc' = "closing"
         /\ pending' = KeepaliveError
         /\ UNCHANGED <<connected, ktask>>
    ELSE /\ pc' = "closing"
         /\ pending' = exc
         /\ connected' = FALSE
         /\ UNCHANGED ktask

\* variant: the backoff doubles without the cap
NextBackoffUncapped(b) == b * 2

\* self._backoff = min(self._backoff * 2, self._max_backoff)
NextBackoff(b) == Min(b * 2, MaxBackoff)

\* variant: setup leaves the backoff as it is
SetupBackoffKept(b) == b

\* self._backoff = 1.0, at the end of _connect_and_setup
SetupBackoff(b) == BaseBackoff

\* variant: setup leaves connected as it is
SetupConnectedKept(c) == c

\* self._state.connected = True, at the end of _connect_and_setup
SetupConnected(c) == TRUE

\* variant: the values of the old map are carried into the parsed one
CarryValues(parsed, old) ==
    [u \in DOMAIN parsed |->
        IF u \in DOMAIN old
        THEN [parsed[u] EXCEPT !.states =
                 [n \in DOMAIN parsed[u].states |->
                     IF n \in DOMAIN old[u].states
                     THEN [parsed[u].states[n] EXCEPT !.value = old[u].states[n].value]
                     ELSE parsed[u].states[n]]]
        ELSE parsed[u]]

\* self._state.controls = controls: the parsed map replaces the old one
LoadedControls(parsed, old) == parsed

\* variant: the parsed entries are added to the old state_map, which keeps
\* its own
LoadedStateMapMerged(parsed, old) ==
    [id \in DOMAIN old \cup DOMAIN parsed |->
        IF id \in DOMAIN old THEN old[id] ELSE parsed[id]]

\* self._state.state_map = state_map: the parsed map replaces the old one,
\* with no await between it and the assignment of controls
LoadedStateMap(parsed, old) == parsed

(***************************************************************************)
(* LoxoneClient.run and _connect_and_setup: the steps.                     *)
(***************************************************************************)
\* the scheme of the uri run() dials, on every attempt
Scheme == "ws"

ConnectFailures == {"OSError", "WebSocketException"}

AuthFailures == {"AuthenticationError", "ConnectionClosed"}

StructureFailures == {"ConnectionClosed", "ValueError", "AttributeError"}

SubscribeFailures == {"ConnectionClosed"}

\* websockets.connect(uri) succeeds
ConnectOk ==
    /\ pc = "connect"
    /\ pc' = "auth"
    /\ last' = NoOp
    /\ UNCHANGED <<pending, cancelled, backoff, ktask, hdr, connected,
                   mirrorVars, now, slept, structure>>
    /\ UNCHANGED <<idle, out_of_service>>

\* websockets.connect(uri) raises
ConnectFail ==
    /\ pc = "connect"
    /\ \E exc \in ConnectFailures : Dispatch(exc)
    /\ last' = NoOp
    /\ UNCHANGED <<cancelled, backoff, ktask, hdr, mirrorVars, now, slept,
                   structure>>
    /\ UNCHANGED <<idle, out_of_service>>

\* authenticate() returns
AuthOk ==
    /\ pc = "auth"
    /\ pc' = "structure"
    /\ last' = NoOp
    /\ UNCHANGED <<pending, cancelled, backoff, ktask, hdr, connected,
                   mirrorVars, now, slept, structure>>
    /\ UNCHANGED <<idle, out_of_service>>

\* authenticate() raises
AuthFail ==
    /\ pc = "auth"
    /\ \E exc \in AuthFailures : Unwind(exc)
    /\ last' = NoOp
    /\ UNCHANGED <<cancelled, backoff, hdr, mirrorVars, now, slept, structure>>
    /\ UNCHANGED <<idle, out_of_service>>

\* the structure file arrives and parses: the mirror's maps are replaced;
\* then serial and firmware are read
StructureLoad ==
    /\ pc = "structure"
    /\ \E data \in Structures :
         LET parsed == parse_structure(data)
         IN /\ controls' = LoadedControls(parsed.controls, controls)
            /\ rooms' = parsed.rooms
            /\ categories' = parsed.categories
            /\ state_map' = LoadedStateMap(parsed.state_map, state_map)
            /\ structure' = data
            /\ IF MsInfoRaises(data)
               THEN /\ Unwind("AttributeError")
                    /\ UNCHANGED <<serial, firmware>>
               ELSE /\ serial' = SerialOf(data)
                    /\ firmware' = data.softwareVersion
                    /\ pc' = "subscribe"
                    /\ UNCHANGED <<pending, connected, ktask>>
    /\ last' = [op |-> "load",
                dirty |-> \E u \in DOMAIN controls : \E n \in DOMAIN controls[u].states :
                             controls[u].states[n].value # None]
    /\ UNCHANGED <<cancelled, backoff, hdr, last_update_ts, now, slept>>
    /\ UNCHANGED <<idle, out_of_service>>

\* the structure download fails: the socket closes, the text is no JSON, or
\* the JSON is no object
StructureFail ==
    /\ pc = "structure"
    /\ \E exc \in StructureFailures : Unwind(exc)
    /\ last' = NoOp
    /\ UNCHANGED <<cancelled, backoff, hdr, mirrorVars, now, slept, structure>>
    /\ UNCHANGED <<idle, out_of_service>>

\* the subscribe response arrives: the end of _connect_and_setup, and the
\* keepalive task is created
SubscribeOk ==
    /\ pc = "subscribe"
    /\ connected' = SetupConnected(connected)
    /\ backoff' = SetupBackoff(backoff)
    /\ ktask' = "running"
    /\ pc' = "receive"
    /\ slept' = <<>>
    /\ last' = [op |-> "setup", backoff0 |-> backoff, slept0 |-> Len(slept)]
    /\ UNCHANGED <<pending, cancelled, hdr, mirrorVars, now, structure>>
    /\ idle' = 0 /\ UNCHANGED out_of_service

SubscribeFail ==
    /\ pc = "subscribe"
    /\ \E exc \in SubscribeFailures : Unwind(exc)
    /\ last' = NoOp
    /\ UNCHANGED <<cancelled, backoff, hdr, mirrorVars, now, slept, structure>>
    /\ UNCHANGED <<idle, out_of_service>>

\* _process_message(header + payload) in the receive loop, at wall-clock
\* time t: OUT_OF_SERVICE raises ConnectionClosed, which run() lets through
ProcessStep(header, payload, t) ==
    IF ProcessRaises(header)
    THEN /\ Unwind("ConnectionClosed")
         /\ out_of_service' = TRUE
         /\ UNCHANGED mirrorVars
    ELSE /\ controls' = ProcessedControls(header, payload)
         /\ last_update_ts' = ProcessedTs(header, payload, t)
         /\ pc' = "processed"
         /\ UNCHANGED <<pending, connected, ktask, rooms, categories,
                        state_map, serial, firmware, out_of_service>>

\* what a step that called _process_message leaves in the history
Processed(header, payload, split) ==
    [op |-> "process", msg_type |-> header.msg_type,
     exact_length |-> header.exact_length, estimated |-> header.estimated,
     payload_len |-> PayloadLen(header.msg_type, payload),
     entries |-> payload.recs, split |-> split, ts0 |-> last_update_ts]

\* a text frame, or a binary frame shorter than a header: logged
RecvIgnored ==
    /\ pc = "receive"
    /\ now < MaxNow
    /\ now' = now + 1
    /\ \E frame \in {"text", "short"} : last' = [op |-> "ignored", frame |-> frame]
    /\ UNCHANGED <<pc, pending, cancelled, backoff, ktask, hdr, connected,
                   mirrorVars, slept, structure>>
    /\ idle' = 0 /\ UNCHANGED out_of_service

\* an 8-byte binary frame: with a payload announced the next frame is
\* awaited, with none the header is processed alone
RecvHeader ==
    /\ pc = "receive"
    /\ now < MaxNow
    /\ now' = now + 1
    /\ \E h \in Headers :
         IF h.exact_length > 0
         THEN /\ pc' = "payload"
              /\ hdr' = h
              /\ last' = NoOp
              /\ UNCHANGED <<pending, connected, ktask, mirrorVars,
                             out_of_service>>
         ELSE /\ ProcessStep(h, [recs |-> <<>>, extra |-> 0], now')
              /\ last' = Processed(h, [recs |-> <<>>, extra |-> 0], FALSE)
              /\ UNCHANGED hdr
    /\ UNCHANGED <<cancelled, backoff, slept, structure>>
    /\ idle' = 0

\* a binary frame longer than a header: header and payload in one frame
RecvComplete ==
    /\ pc = "receive"
    /\ now < MaxNow
    /\ now' = now + 1
    /\ \E h \in Headers : \E p \in PayloadsFor(h.msg_type) :
         /\ PayloadLen(h.msg_type, p) > 0
         /\ ProcessStep(h, p, now')
         /\ last' = Processed(h, p, FALSE)
    /\ UNCHANGED <<cancelled, backoff, hdr, slept, structure>>
    /\ idle' = 0

\* the frame after a header that announced a payload is binary: it is
\* appended to the header and the message is processed
RecvPayload ==
    /\ pc = "payload"
    /\ now < MaxNow
    /\ now' = now + 1
    /\ \E p \in PayloadsFor(hdr.msg_type) :
         /\ ProcessStep(hdr, p, now')
         /\ last' = Processed(hdr, p, TRUE)
    /\ hdr' = NoHdr
    /\ UNCHANGED <<cancelled, backoff, slept, structure>>
    /\ idle' = 0

\* _process_message has returned: on to the next message
LoopBack ==
    /\ pc = "processed"
    /\ pc' = "receive"
    /\ last' = NoOp
    /\ UNCHANGED <<pending, cancelled, backoff, ktask, hdr, connected,
                   mirrorVars, now, slept, structure>>
    /\ UNCHANGED <<idle, out_of_service>>

\* the frame after such a header is text: logged, nothing is processed
RecvPayloadText ==
    /\ pc = "payload"
    /\ now < MaxNow
    /\ now' = now + 1
    /\ pc' = "receive"
    /\ hdr' = NoHdr
    /\ last' = [op |-> "ignored", frame |-> "text for payload"]
    /\ UNCHANGED <<pending, cancelled, backoff, ktask, connected, mirrorVars,
                   slept, structure>>
    /\ idle' = 0 /\ UNCHANGED out_of_service

\* the socket closes: async for ends (a normal close) or raises, and
\* ws.recv() raises in either case
RecvClosed ==
    /\ pc \in {"receive", "payload"}
    /\ \E exc \in {"none", "ConnectionClosed"} :
         /\ pc = "payload" => exc = "ConnectionClosed"
         /\ Unwind(exc)
    /\ hdr' = NoHdr
    /\ last' = NoOp
    /\ UNCHANGED <<cancelled, backoff, mirrorVars, now, slept, structure>>
    /\ UNCHANGED <<idle, out_of_service>>

\* _keepalive_loop ends on its own: ws.send raises ConnectionClosed (break)
\* or another exception (the task ends by it)
KeepaliveEnds ==
    /\ ktask = "running"
    /\ pc \in {"receive", "payload"}
    /\ \E outcome \in {"finished", "failed"} : ktask' = outcome
    /\ last' = NoOp
    /\ UNCHANGED <<pc, pending, cancelled, backoff, hdr, connected,
                   mirrorVars, now, slept, structure>>
    /\ UNCHANGED <<idle, out_of_service>>

\* the cancelled keepalive task catches CancelledError and returns; run()
\* resumes in its finally block
KeepaliveCancelled ==
    /\ pc = "teardown"
    /\ ktask = "cancelling"
    /\ ktask' = "finished"
    /\ connected' = FALSE
    /\ pc' = "closing"
    /\ last' = NoOp
    /\ UNCHANGED <<pending, cancelled, backoff, hdr, mirrorVars, now, slept,
                   structure>>
    /\ UNCHANGED <<idle, out_of_service>>

\* ws.close() at the exit of async with is over
CloseDone ==
    /\ pc = "closing"
    /\ Dispatch(pending)
    /\ last' = [op |-> "closed", exc |-> pending]
    /\ UNCHANGED <<cancelled, backoff, ktask, hdr, mirrorVars, now, slept,
                   structure>>
    /\ UNCHANGED <<idle, out_of_service>>

\* asyncio.sleep(self._backoff) is over
Wake ==
    /\ pc = "sleep"
    /\ Len(slept) < MaxSleeps
    /\ slept' = Append(slept, backoff)
    /\ backoff' = NextBackoff(backoff)
    /\ pc' = "connect"
    /\ last' = [op |-> "wake", sleep |-> backoff]
    /\ UNCHANGED <<pending, cancelled, ktask, hdr, connected, mirrorVars,
                   now, structure>>
    /\ out_of_service' = FALSE /\ UNCHANGED idle

\* cancel() on the task of run(), which is suspended at pc: CancelledError
\* is raised at that await.  In "teardown" the await is inside
\* contextlib.suppress(asyncio.CancelledError), and the awaited keepalive
\* task swallows the forwarded cancellation: run() goes on.
Cancel ==
    /\ pc \notin {"done", "crashed", "processed"}
    /\ ~cancelled
    /\ cancelled' = TRUE
    /\ IF pc \in {"connect", "closing"}
       THEN Dispatch("CancelledError") /\ UNCHANGED ktask
       ELSE IF pc = "sleep"
       THEN pc' = "done" /\ UNCHANGED <<pending, connected, ktask>>
       ELSE IF pc = "teardown"
       THEN UNCHANGED <<pc, pending, connected, ktask>>
       ELSE Unwind("CancelledError")
    /\ hdr' = NoHdr
    /\ last' = [op |-> "cancel", at |-> pc]
    /\ UNCHANGED <<backoff, mirrorVars, now, slept, structure>>
    /\ UNCHANGED <<idle, out_of_service>>

\* a keepalive interval passes in the receive loop and no frame arrives:
\* async for and ws.recv() stay suspended; nothing reads _last_recv_time or
\* _keepalive_timeout
Tick ==
    /\ pc \in {"receive", "payload"}
    /\ idle < MaxTicks * keepalive_interval
    /\ idle' = idle + keepalive_interval
    /\ last' = NoOp
    /\ UNCHANGED <<pc, pending, cancelled, backoff, ktask, hdr, connected,
                   mirrorVars, now, slept, structure, out_of_service>>

(***************************************************************************)
(* __main__._run: the supervisor.                                          *)
(***************************************************************************)
Clients == {<<"client", i>> : i \in 1..NumClients}

Http == <<"http", 0>>

Otlp == <<"otlp", 0>>

Waiter == <<"waiter", 0>>

Tasks == Clients \cup {Http, Otlp, Waiter}

Done == {"returned", "cancelled", "failed"}

\* the tasks created in the body of async with asyncio.TaskGroup(); the
\* OTLP task only when config.opentelemetry.enabled
MainInit ==
    /\ \E enabled \in BOOLEAN :
         task = [t \in Tasks |-> IF t = Otlp /\ ~enabled THEN "absent" ELSE "running"]
    /\ cancelReq = [t \in Tasks |-> FALSE]
    /\ seen = [t \in Tasks |-> FALSE]
    /\ shutdown_event = FALSE
    /\ aborting = FALSE
    /\ errors = FALSE
    /\ parentCancel = FALSE
    /\ runState = "waiting"
    /\ otlpStops = 0
    /\ shutdownRaised = FALSE

\* the supervisor before it is looked at: the session runner alone
MainIdle ==
    /\ task = [t \in Tasks |-> "absent"]
    /\ cancelReq = [t \in Tasks |-> FALSE]
    /\ seen = [t \in Tasks |-> FALSE]
    /\ shutdown_event = FALSE
    /\ aborting = FALSE
    /\ errors = FALSE
    /\ parentCancel = FALSE
    /\ runState = "waiting"
    /\ otlpStops = 0
    /\ shutdownRaised = FALSE

\* TaskGroup._abort: cancel() on every task that is not done
Abort ==
    /\ aborting' = TRUE
    /\ cancelReq' = [t \in Tasks |-> cancelReq[t] \/ task'[t] = "running"]

\* SIGTERM or SIGINT: _signal_handler sets the event
Signal ==
    /\ runState = "waiting"
    /\ ~shutdown_event
    /\ shutdown_event' = TRUE
    /\ UNCHANGED <<task, cancelReq, seen, aborting, errors, parentCancel,
                   runState, otlpStops, shutdownRaised>>

\* _wait_for_shutdown: the event is set; the exporter is stopped and
\* asyncio.CancelledError is raised, which ends the task as a cancelled one
WaitForShutdown ==
    /\ task[Waiter] = "running"
    /\ ~cancelReq[Waiter]
    /\ shutdown_event
    /\ task' = [task EXCEPT ![Waiter] = "cancelled"]
    /\ otlpStops' = IF task[Otlp] = "absent" THEN otlpStops ELSE otlpStops + 1
    /\ shutdownRaised' = TRUE
    /\ UNCHANGED <<cancelReq, seen, shutdown_event, aborting, errors,
                   parentCancel, runState>>

\* how a task ends when CancelledError is raised in it: run() returns, or
\* lets the error through (in its backoff sleep), or goes on (in its
\* teardown); the others let it through
CancelOutcomes(t) ==
    IF t \in Clients THEN {"returned", "cancelled", "running"} ELSE {"cancelled"}

\* a requested cancellation is delivered to a task
TaskCancelled ==
    \E t \in Tasks :
        /\ task[t] = "running"
        /\ cancelReq[t]
        /\ \E outcome \in CancelOutcomes(t) : task' = [task EXCEPT ![t] = outcome]
        /\ cancelReq' = [cancelReq EXCEPT ![t] = FALSE]
        /\ otlpStops' = IF t = Otlp THEN otlpStops + 1 ELSE otlpStops
        /\ UNCHANGED <<seen, shutdown_event, aborting, errors, parentCancel,
                       runState, shutdownRaised>>

\* run_http_server raises (runner.setup() or site.start() fails)
HttpFail ==
    /\ task[Http] = "running"
    /\ ~cancelReq[Http]
    /\ task' = [task EXCEPT ![Http] = "failed"]
    /\ UNCHANGED <<cancelReq, seen, shutdown_event, aborting, errors,
                   parentCancel, runState, otlpStops, shutdownRaised>>

\* the done callback of a task: a cancelled task is only discarded; a task
\* ended by an exception adds it to the errors and aborts the group
OnTaskDone ==
    \E t \in Tasks :
        /\ task[t] \in Done
        /\ ~seen[t]
        /\ seen' = [seen EXCEPT ![t] = TRUE]
        /\ UNCHANGED task
        /\ IF task[t] = "failed"
           THEN /\ errors' = TRUE
                /\ IF ~aborting /\ ~parentCancel
                   THEN Abort
                   ELSE UNCHANGED <<aborting, cancelReq>>
           ELSE UNCHANGED <<errors, aborting, cancelReq>>
        /\ UNCHANGED <<shutdown_event, parentCancel, runState, otlpStops,
                       shutdownRaised>>

\* cancel() on the task of _run() while it waits in the exit of the group
ParentCancel ==
    /\ runState = "waiting"
    /\ ~parentCancel
    /\ parentCancel' = TRUE
    /\ UNCHANGED task
    /\ IF ~aborting THEN Abort ELSE UNCHANGED <<aborting, cancelReq>>
    /\ UNCHANGED <<seen, shutdown_event, errors, runState, otlpStops,
                   shutdownRaised>>

\* no task is left: the group exits; _run() raises the errors or the
\* cancellation, or returns
GroupExit ==
    /\ runState = "waiting"
    /\ \A t \in Tasks : task[t] = "absent" \/ (task[t] \in Done /\ seen[t])
    /\ runState' = IF errors \/ parentCancel THEN "raised" ELSE "returned"
    /\ UNCHANGED <<task, cancelReq, seen, shutdown_event, aborting, errors,
                   parentCancel, otlpStops, shutdownRaised>>

(***************************************************************************)
(* loxone_auth.authenticate.                                               *)
(*                                                                         *)
(* A reply to a command is "ok" (a code that starts with 2), "fail" (any   *)
(* other code), "error" (an exception other than AuthenticationError:      *)
(* the socket closes, the reply cannot be used) or "cancel" (the task is   *)
(* cancelled at the await).                                                *)
(***************************************************************************)
VARIABLES
    a_pc,        \* the command whose reply authenticate() awaits, or "done"
    a_strategy,  \* the attempt of authenticate() that runs
    a_host,      \* the host argument is not empty
    a_log,       \* the commands sent so far, each with its reply
    a_failed,    \* how each attempt ended: "none", or the exception it raised
    a_result     \* what authenticate() ended with ("none": it runs)

authVars == <<a_pc, a_strategy, a_host, a_log, a_failed, a_result>>

Strategies == <<"token_ws", "token_http", "hash">>

Replies == {"ok", "fail", "error", "cancel"}

Sent(strategy, cmd) == [strategy |-> strategy, cmd |-> cmd, reply |-> "pending"]

\* the first command of an attempt
FirstCommand(strategy) ==
    IF strategy = "token_ws" THEN "getPublicKey"
    ELSE IF strategy = "token_http" THEN "http_getPublicKey"
    ELSE "getkey"

\* _token_auth: the command sent after an "ok" reply ("return": return True)
TokenNext(cmd) ==
    IF cmd \in {"getPublicKey", "http_getPublicKey"} THEN "keyexchange"
    ELSE IF cmd = "keyexchange" THEN "getkey2"
    ELSE IF cmd = "getkey2" THEN "getjwt"
    ELSE "return"

\* variant: gettoken is sent whatever getjwt returned
AfterGetJwtAlways(reply) == "gettoken"

\* _token_auth after the reply to getjwt: on a non-success code gettoken is
\* sent, otherwise the attempt returns True
AfterGetJwt(reply) == IF reply = "ok" THEN "return" ELSE "gettoken"

\* _hash_auth: the command sent after an "ok" reply
HashNext(cmd) == IF cmd = "getkey" THEN "authenticate" ELSE "return"

\* the reply is written to the last entry of the log
Answered(reply) == [a_log EXCEPT ![Len(a_log)].reply = reply]

\* authenticate() starts, with its first attempt
AuthInit ==
    /\ a_host \in BOOLEAN
    /\ a_strategy = "token_ws"
    /\ a_pc = FirstCommand("token_ws")
    /\ a_log = <<Sent("token_ws", FirstCommand("token_ws"))>>
    /\ a_failed = [t \in {"token_ws", "token_http", "hash"} |-> "none"]
    /\ a_result = "none"

\* authenticate() is not looked at
AuthIdle ==
    /\ a_host = FALSE
    /\ a_strategy = "token_ws"
    /\ a_pc = "done"
    /\ a_log = <<>>
    /\ a_failed = [t \in {"token_ws", "token_http", "hash"} |-> "none"]
    /\ a_result = "none"

\* variant: the attempt with the HTTP-fetched key is made without a host too
AfterTokenWsAlwaysHttp(host) == "token_http"

\* the attempt that follows the failed first one: the HTTP-fetched key only
\* when a host is given
AfterTokenWs(host) == IF host THEN "token_http" ELSE "hash"

\* the current attempt goes on with the next command
Continue(reply, cmd) ==
    /\ a_pc' = cmd
    /\ a_log' = Append(Answered(reply), Sent(a_strategy, cmd))
    /\ UNCHANGED <<a_strategy, a_host, a_failed, a_result>>

\* the current attempt returns True, and so does authenticate()
ReturnTrue(reply) ==
    /\ a_pc' = "done"
    /\ a_log' = Answered(reply)
    /\ a_result' = "True"
    /\ UNCHANGED <<a_strategy, a_host, a_failed>>

\* the task is cancelled at the await: CancelledError is no Exception and
\* passes every except clause
Cancelled(reply) ==
    /\ a_pc' = "done"
    /\ a_log' = Answered(reply)
    /\ a_result' = "CancelledError"
    /\ UNCHANGED <<a_strategy, a_host, a_failed>>

\* the except clauses of authenticate(): a token attempt that raises exc is
\* logged and the next attempt starts; what the hash attempt raises leaves
\* authenticate() as an AuthenticationError
Raise(reply, exc) ==
    LET next == IF a_strategy = "token_ws" THEN AfterTokenWs(a_host) ELSE "hash"
    IN /\ a_failed' = [a_failed EXCEPT ![a_strategy] = exc]
       /\ UNCHANGED a_host
       /\ IF a_strategy = "hash"
          THEN /\ a_pc' = "done"
               /\ a_log' = Answered(reply)
               /\ a_result' = "AuthenticationError"
               /\ UNCHANGED a_strategy
          ELSE /\ a_strategy' = next
               /\ a_pc' = FirstCommand(next)
               /\ a_log' = Append(Answered(reply), Sent(next, FirstCommand(next)))
               /\ UNCHANGED a_result

\* what a reply makes of the attempt: "fail" raises AuthenticationError
\* and "error" another exception
Outcome(reply, next) ==
    IF reply = "cancel" THEN Cancelled(reply)
    ELSE IF reply = "fail" THEN Raise(reply, "AuthenticationError")
    ELSE IF reply = "error" THEN Raise(reply, "Exception")
    ELSE IF next = "return" THEN ReturnTrue(reply)
    ELSE Continue(reply, next)

\* _token_auth: the reply to one of its commands arrives
TokenAuthStep ==
    /\ a_pc \in {"getPublicKey", "keyexchange", "getkey2", "getjwt", "gettoken"}
    /\ \E reply \in Replies :
         IF a_pc = "getjwt" /\ reply \in {"ok", "fail"}
         THEN IF AfterGetJwt(reply) = "return"
              THEN ReturnTrue(reply)
              ELSE Continue(reply, AfterGetJwt(reply))
         ELSE Outcome(reply, TokenNext(a_pc))

\* _fetch_public_key_http: urllib.request.urlopen(req, timeout=10) is called
\* in the coroutine itself, which has no await
HttpFetch == "blocking"

\* the event loop runs no other task while the coroutine is inside urlopen
FetchBlocks == a_pc = "http_getPublicKey" /\ HttpFetch = "blocking"

\* _fetch_public_key_http returns the key, or raises; a cancellation cannot
\* be delivered inside a call that does not suspend
FetchPublicKey ==
    /\ a_pc = "http_getPublicKey"
    /\ \E reply \in (IF HttpFetch = "blocking" THEN Replies \ {"cancel"} ELSE Replies) :
         Outcome(reply, TokenNext(a_pc))

\* _hash_auth: the reply to one of its commands arrives
HashAuthStep ==
    /\ a_pc \in {"getkey", "authenticate"}
    /\ \E reply \in Replies : Outcome(reply, HashNext(a_pc))

(***************************************************************************)
(* metrics.py and server.py: the /metrics collector and /healthz.          *)
(*                                                                         *)
(* A metric family is the bag of its samples: the order in which a dict    *)
(* is walked is not modelled.                                              *)
(***************************************************************************)
VARIABLES
    ms_states,   \* the list of MiniserverState the handlers read
    config,      \* ExporterConfig: the filters
    otlp_status, \* "absent" (no exporter), or the ExportState of its status
    response     \* what the last handler call produced

scrapeVars == <<ms_states, config, otlp_status, response>>

\* fnmatch.fnmatch(name, pattern), for the patterns of Configs
fnmatch(name, pattern) ==
    IF pattern = "*" THEN TRUE
    ELSE IF pattern = "Kitchen*" THEN name \in {"Kitchen Light", "Kitchen Status"}
    ELSE name = pattern

\* LoxoneCollector._should_exclude
should_exclude(control, ms_rooms, cfg) ==
    \/ /\ cfg.exclude_rooms # {}
       /\ control.room_uuid # None
       /\ control.room_uuid \in DOMAIN ms_rooms
       /\ ms_rooms[control.room_uuid].name \in cfg.exclude_rooms
    \/ /\ cfg.exclude_types # {}
       /\ control.type \in cfg.exclude_types
    \/ \E pattern \in cfg.exclude_names : fnmatch(control.name, pattern)

\* rooms.get(uuid or "", Room(uuid="", name="")).name, and for categories
NameOf(named, uuid) ==
    LET key == IF uuid = None THEN "" ELSE uuid
    IN IF key \in DOMAIN named THEN named[key].name ELSE ""

Labels(control, ms_name, ms_rooms, ms_categories, state_name) ==
    <<ms_name, control.name, NameOf(ms_rooms, control.room_uuid),
      NameOf(ms_categories, control.cat_uuid), control.type, state_name>>

\* gauge.add_metric for every state of the control that has a value
ValueSamples(control, ms_name, ms_rooms, ms_categories) ==
    SetToBag({[labels |-> Labels(control, ms_name, ms_rooms, ms_categories,
                                 control.states[n].state_name),
               value |-> control.states[n].value] :
                n \in {m \in DOMAIN control.states : control.states[m].value # None}})

\* info.add_metric for every state of the control that has a text
TextSamples(control, ms_name, ms_rooms, ms_categories) ==
    SetToBag({[labels |-> Labels(control, ms_name, ms_rooms, ms_categories,
                                 control.states[n].state_name),
               value |-> control.states[n].text] :
                n \in {m \in DOMAIN control.states : control.states[m].text # None}})

NoMetrics == [gauge |-> EmptyBag, info |-> EmptyBag, exported |-> 0]

AddMetrics(a, b) ==
    [gauge |-> a.gauge (+) b.gauge, info |-> a.info (+) b.info,
     exported |-> a.exported + b.exported]

RECURSIVE collect_control_metrics(_, _, _, _, _)
RECURSIVE CollectSubControls(_, _, _, _, _)

\* the branch of _collect_control_metrics for a text-only control: its texts
\* when include_text_values is set, and no sub-control
TextOnlyMetrics(control, ms_name, ms_rooms, ms_categories, cfg) ==
    IF cfg.include_text_values
    THEN [gauge |-> EmptyBag,
          info |-> TextSamples(control, ms_name, ms_rooms, ms_categories),
          exported |-> 1]
    ELSE NoMetrics

\* variant: an excluded control is skipped but its sub-controls are not
ExcludedMetricsWithSubs(control, ms_name, ms_rooms, ms_categories, cfg) ==
    CollectSubControls(control.sub_controls, ms_name, ms_rooms, ms_categories, cfg)

\* the branch of _collect_control_metrics for an excluded control: return 0
ExcludedMetrics(control, ms_name, ms_rooms, ms_categories, cfg) == NoMetrics

\* the loop of _collect_control_metrics over control.sub_controls
CollectSubControls(subs, ms_name, ms_rooms, ms_categories, cfg) ==
    IF subs = <<>> THEN NoMetrics
    ELSE AddMetrics(
             collect_control_metrics(Head(subs), ms_name, ms_rooms, ms_categories, cfg),
             CollectSubControls(Tail(subs), ms_name, ms_rooms, ms_categories, cfg))

\* LoxoneCollector._collect_control_metrics
collect_control_metrics(control, ms_name, ms_rooms, ms_categories, cfg) ==
    IF should_exclude(control, ms_rooms, cfg)
    THEN ExcludedMetrics(control, ms_name, ms_rooms, ms_categories, cfg)
    ELSE IF control.is_text_only
    THEN TextOnlyMetrics(control, ms_name, ms_rooms, ms_categories, cfg)
    ELSE LET own == ValueSamples(control, ms_name, ms_rooms, ms_categories)
         IN AddMetrics(
                [gauge |-> own, info |-> EmptyBag,
                 exported |-> IF own = EmptyBag THEN 0 ELSE 1],
                CollectSubControls(control.sub_controls, ms_name, ms_rooms,
                                   ms_categories, cfg))

\* the loop of collect() over ms.controls.values()
RECURSIVE CollectControls(_, _, _)
CollectControls(ms, uuids, cfg) ==
    IF uuids = {} THEN NoMetrics
    ELSE LET u == CHOOSE x \in uuids : TRUE
         IN AddMetrics(
                collect_control_metrics(ms.controls[u], ms.name, ms.rooms,
                                        ms.categories, cfg),
                CollectControls(ms, uuids \ {u}, cfg))

\* len(ms.controls) plus the direct sub-controls
RECURSIVE Discovered(_, _)
Discovered(ctrls, uuids) ==
    IF uuids = {} THEN 0
    ELSE LET u == CHOOSE x \in uuids : TRUE
         IN 1 + Len(ctrls[u].sub_controls) + Discovered(ctrls, uuids \ {u})

\* the loop of collect() over self._states
RECURSIVE CollectStates(_, _)
CollectStates(sts, cfg) ==
    IF sts = <<>>
    THEN [gauge |-> EmptyBag, info |-> EmptyBag, connected |-> <<>>,
          last_update |-> <<>>, discovered |-> <<>>, exported |-> <<>>]
    ELSE LET ms == Head(sts)
             m == CollectControls(ms, DOMAIN ms.controls, cfg)
             rest == CollectStates(Tail(sts), cfg)
         IN [gauge |-> m.gauge (+) rest.gauge,
             info |-> m.info (+) rest.info,
             connected |-> <<<<ms.name, IF ms.connected THEN 1 ELSE 0>>>> \o rest.connected,
             last_update |-> <<<<ms.name, ms.last_update_ts>>>> \o rest.last_update,
             discovered |-> <<<<ms.name, Discovered(ms.controls, DOMAIN ms.controls)>>>>
                               \o rest.discovered,
             exported |-> <<<<ms.name, m.exported>>>> \o rest.exported]

\* LoxoneCollector.collect: the families it yields (the info family only
\* with include_text_values)
collect(sts, cfg) ==
    LET r == CollectStates(sts, cfg)
    IN [handler |-> "collect", gauge |-> r.gauge,
        info |-> IF cfg.include_text_values THEN r.info ELSE None,
        connected |-> r.connected, last_update |-> r.last_update,
        discovered |-> r.discovered, exported |-> r.exported, up |-> 1]

\* variant: the filters are applied to the mirror itself
StatesFiltered(sts, cfg) ==
    [i \in DOMAIN sts |->
        [sts[i] EXCEPT !.controls =
            [u \in {x \in DOMAIN sts[i].controls :
                      ~should_exclude(sts[i].controls[x], sts[i].rooms, cfg)} |->
                sts[i].controls[u]]]]

\* the states after a handler has run: neither handler assigns to them
StatesAfter(sts, cfg) == sts

\* ExportState of otlp_exporter.py
ExportStates == {"DISABLED", "IDLE", "EXPORTING", "RETRYING", "FAILED"}

\* the miniservers entry of /healthz for one MiniserverState
RECURSIVE Exported(_, _)
Exported(ctrls, uuids) ==
    IF uuids = {} THEN 0
    ELSE LET u == CHOOSE x \in uuids : TRUE
             subs == ctrls[u].sub_controls
         IN (IF ctrls[u].is_text_only THEN 0
             ELSE 1 + Cardinality({i \in DOMAIN subs : ~subs[i].is_text_only}))
            + Exported(ctrls, uuids \ {u})

HealthEntry(ms) ==
    [name |-> ms.name, connected |-> ms.connected, last_update |-> ms.last_update_ts,
     controls_discovered |-> Discovered(ms.controls, DOMAIN ms.controls),
     controls_exported |-> Exported(ms.controls, DOMAIN ms.controls)]

\* variant: some connected Miniserver is enough to be healthy
BaseStatusAnyConnected(connected_count, total_count) ==
    IF connected_count > 0 THEN "healthy" ELSE "unhealthy"

\* _healthz_handler: the status before the OTLP state is looked at
BaseStatus(connected_count, total_count) ==
    IF connected_count = total_count /\ total_count > 0 THEN "healthy"
    ELSE IF connected_count > 0 THEN "degraded"
    ELSE "unhealthy"

\* _healthz_handler
healthz(sts, otlp) ==
    LET connected_count == Cardinality({i \in DOMAIN sts : sts[i].connected})
        total_count == Len(sts)
        status == BaseStatus(connected_count, total_count)
    IN [handler |-> "healthz",
        status |-> IF otlp = "FAILED" /\ status = "healthy" THEN "degraded" ELSE status,
        http_status |-> IF status = "unhealthy" THEN 503 ELSE 200,
        miniservers |-> [i \in DOMAIN sts |-> HealthEntry(sts[i])],
        otlp |-> otlp]

\* a text-only control with a numeric sub-control
TextParentControls ==
    << <<"c1", RawControl("Kitchen Status", "TextState", "r1", "k1",
                          << <<"textAndIcon", "s1">> >>,
             << <<"c2", RawControl("Level", "InfoOnlyAnalog", "", "",
                                   << <<"value", "s2">> >>, <<>>)>> >>)>> >>

\* a control whose sub-control has a text-only sub-control of its own
DeepTextControls ==
    << <<"c1", RawControl("Living Room", "IRoomControllerV2", "r1", "k1",
                          << <<"tempActual", "s1">> >>,
             << <<"c2", RawControl("Heating", "Dimmer", "", "",
                                   << <<"value", "s2">> >>,
                  << <<"c3", RawControl("Mode", "TextState", "", "",
                                        << <<"textAndIcon", "s3">> >>, <<>>)>> >>)>> >>)>> >>

\* the MiniserverState a session runner leaves after it has loaded data and
\* applied a VALUE batch and a TEXT batch
Mirror(data, entries, texts) ==
    LET parsed == parse_structure(data)
    IN [controls |-> ApplyTexts(ApplyValues(parsed.controls, parsed.state_map, entries),
                                parsed.state_map, texts),
        rooms |-> parsed.rooms, categories |-> parsed.categories,
        state_map |-> parsed.state_map,
        last_update_ts |-> IF entries = <<>> THEN 0 ELSE 1]

AllValues == << <<"s1", "1.0">>, <<"s2", "0.0">>, <<"s3", "1.0">> >>

Mirrors ==
    { Mirror(RawStructure(FlatControls, "dict", 0), AllValues, <<>>),
      Mirror(RawStructure(FlatControls, "dict", 0), <<>>, <<>>),
      Mirror(RawStructure(DeepControls, "dict", 2), AllValues, <<>>),
      Mirror(RawStructure(SharedControls, "absent", 0), AllValues, << <<"s1", "on">> >>),
      Mirror(RawStructure(TextParentControls, "dict", 0), AllValues, << <<"s1", "on">> >>),
      Mirror(RawStructure(DeepTextControls, "dict", 0), AllValues, <<>>) }

MiniserverStates(i) ==
    {[name |-> <<"ms", i>>, connected |-> c, last_update_ts |-> m.last_update_ts,
      controls |-> m.controls, rooms |-> m.rooms, categories |-> m.categories,
      state_map |-> m.state_map] : m \in Mirrors, c \in BOOLEAN}

\* one MiniserverState per configured Miniserver, of which there is at least one
StateLists ==
    UNION {{sts \in [1..n -> UNION {MiniserverStates(i) : i \in 1..n}] :
               \A i \in 1..n : sts[i] \in MiniserverStates(i)} : n \in 1..NumClients}

ExporterConfig(exclude_rooms, exclude_types, exclude_names, include_text_values) ==
    [exclude_rooms |-> exclude_rooms, exclude_types |-> exclude_types,
     exclude_names |-> exclude_names, include_text_values |-> include_text_values]

Configs ==
    { ExporterConfig({}, {}, {}, FALSE),
      ExporterConfig({}, {}, {}, TRUE),
      ExporterConfig({"Kitchen"}, {}, {}, FALSE),
      ExporterConfig({}, {"Dimmer"}, {}, TRUE),
      ExporterConfig({}, {}, {"Kitchen*"}, FALSE),
      ExporterConfig({"Cellar"}, {"Switch"}, {"Living Room", "Outside"}, FALSE) }

NoResponse == [handler |-> "none"]

ScrapeInit ==
    /\ ms_states \in StateLists
    /\ config \in Configs
    /\ otlp_status \in {"absent", "IDLE", "FAILED"}
    /\ response = NoResponse

\* the handlers are not looked at
ScrapeIdle ==
    /\ ms_states = <<>>
    /\ config = ExporterConfig({}, {}, {}, FALSE)
    /\ otlp_status = "absent"
    /\ response = NoResponse

\* GET /metrics: generate_latest(registry) calls collect()
Scrape ==
    /\ response' = collect(ms_states, config)
    /\ ms_states' = StatesAfter(ms_states, config)
    /\ UNCHANGED <<config, otlp_status>>

\* GET /healthz
Healthz ==
    /\ response' = healthz(ms_states, otlp_status)
    /\ ms_states' = StatesAfter(ms_states, config)
    /\ UNCHANGED <<config, otlp_status>>

(***************************************************************************)
(* otlp_exporter.py: the push loop of OTLPExporter.                        *)
(***************************************************************************)
VARIABLES
    push_pc,     \* where the export task stands: "new", "interval", "export",
                 \* "backoff" or "stopped"
    status,      \* self._status, an ExportStatus
    exporting,   \* self._exporting
    cycles,      \* the interval sleeps that have ended
    push_last,   \* what the last step of the loop did
    push_task,   \* self._task: None or the export task
    stops,       \* the calls of stop()
    stop_raised, \* the last call of stop() raised
    attempts,    \* the calls of _export_once since the last interval sleep
    started,     \* the calls of _export_once
    finished,    \* the calls of _export_once that have returned or raised
    outcome,     \* what the last call of _export_once met
    gauge,       \* otlp_export_status
    exported_total,  \* otlp_exported_metrics_total
    points_sent,     \* the data points of the batches sent with SUCCESS
    observations     \* the count of otlp_export_duration_seconds

pushVars == <<push_pc, status, exporting, cycles, push_last, push_task, stops,
              stop_raised, attempts, started, finished, outcome, gauge,
              exported_total, points_sent, observations>>

\* ExportStatus(state=ExportState.IDLE) of OTLPExporter.__init__
ExportStatus ==
    [state |-> "IDLE", last_success_timestamp |-> None, last_error |-> None,
     consecutive_failures |-> 0, current_backoff_seconds |-> BASE_DELAY]

RECURSIVE Power(_, _)
Power(b, e) == IF e = 0 THEN 1 ELSE b * Power(b, e - 1)

\* _calculate_backoff
calculate_backoff(consecutive_failures) ==
    IF consecutive_failures <= 0
    THEN BASE_DELAY
    ELSE LET delay == BASE_DELAY * Power(MULTIPLIER, consecutive_failures - 1)
         IN IF delay < MAX_DELAY THEN delay ELSE MAX_DELAY

\* variant: a FAILED status is taken into the new cycle as it is
ResetFailedNever(st) == st

\* _should_export: the reset of a FAILED status on a new cycle
ResetFailed(st) ==
    IF st.state = "FAILED"
    THEN [st EXCEPT !.consecutive_failures = 0,
                    !.current_backoff_seconds = BASE_DELAY,
                    !.state = "IDLE"]
    ELSE st

\* variant: a success leaves the failure counter as it is
handle_success_keeping(st, time) ==
    [st EXCEPT !.state = "IDLE", !.last_success_timestamp = time, !.last_error = None]

\* _handle_success
handle_success(st, time) ==
    [st EXCEPT !.state = "IDLE", !.last_success_timestamp = time, !.last_error = None,
               !.consecutive_failures = 0, !.current_backoff_seconds = BASE_DELAY]

\* variant: the failures are not compared with _MAX_FAILURES
handle_failure_retrying(st) ==
    LET failures == st.consecutive_failures + 1
    IN [st EXCEPT !.consecutive_failures = failures, !.state = "RETRYING",
                  !.current_backoff_seconds = calculate_backoff(failures)]

\* _handle_failure up to its await asyncio.sleep(backoff), or to its end
\* when the failures have reached _MAX_FAILURES
handle_failure(st) ==
    LET failures == st.consecutive_failures + 1
    IN IF failures >= MAX_FAILURES
       THEN [st EXCEPT !.consecutive_failures = failures, !.state = "FAILED"]
       ELSE [st EXCEPT !.consecutive_failures = failures, !.state = "RETRYING",
                       !.current_backoff_seconds = calculate_backoff(failures)]

\* what _export_once meets: no metric family, the result of the SDK export,
\* or an exception
ExportResults == {"empty", "SUCCESS", "FAILURE", "error"}

\* the return value of _export_once
export_once(result) == result \in {"empty", "SUCCESS"}

\* the batches convert_metrics builds from a registry with samples: the
\* number of data points of each metric family
Batches == {<<1>>, <<2, 1>>}

\* len(batch.metrics)
MetricCount(batch) == Len(batch)

\* the data points of a batch
RECURSIVE DataPoints(_)
DataPoints(batch) ==
    IF batch = <<>> THEN 0 ELSE Head(batch) + DataPoints(Tail(batch))

\* float(self._status.state): the value of the IntEnum ExportState
StateCode(state) ==
    CASE state = "DISABLED" -> 0
      [] state = "IDLE" -> 1
      [] state = "EXPORTING" -> 2
      [] state = "RETRYING" -> 3
      [] state = "FAILED" -> 4

\* _sync_health_metrics: otlp_export_status.set
sync_health_metrics(st) == StateCode(st.state)

\* otlp_export_duration.observe in _update_health_metrics_success and
\* _update_health_metrics_failure: not reached when there is no metric
Observed(result) == IF result = "empty" THEN 0 ELSE 1

\* otlp_exported_metrics_total.inc(metric_count) after a SUCCESS
Incremented(result, batch) == IF result = "SUCCESS" THEN MetricCount(batch) ELSE 0

\* variant: an exception of the conversion or of the SDK leaves _export_once
ExportRaisesOnError(result) == result = "error"

\* _export_once raises: its except Exception clause returns False instead
ExportRaises(result) == FALSE

\* variant: the overlap guard is not set
ExportingAtStartUnset == FALSE

\* self._exporting = True before _export_once is awaited
ExportingAtStart == TRUE

\* variant: stop() keeps the handle of the cancelled task
TaskAfterStopKept == "task"

\* the finally clause of stop(): self._task = None
TaskAfterStop == None

PushInit ==
    /\ push_pc = "new"
    /\ status = ExportStatus
    /\ exporting = FALSE
    /\ cycles = 0
    /\ push_last = "init"
    /\ push_task = None
    /\ stops = 0
    /\ stop_raised = FALSE
    /\ attempts = 0
    /\ started = 0
    /\ finished = 0
    /\ outcome = "none"
    /\ gauge = 0
    /\ exported_total = 0
    /\ points_sent = 0
    /\ observations = 0

\* no exporter is looked at
PushIdle ==
    /\ push_pc = "stopped"
    /\ status = ExportStatus
    /\ exporting = FALSE
    /\ cycles = 0
    /\ push_last = "init"
    /\ push_task = None
    /\ stops = 0
    /\ stop_raised = FALSE
    /\ attempts = 0
    /\ started = 0
    /\ finished = 0
    /\ outcome = "none"
    /\ gauge = 0
    /\ exported_total = 0
    /\ points_sent = 0
    /\ observations = 0

\* OTLPExporter.start
Start ==
    /\ push_pc = "new"
    /\ push_task = None
    /\ status' = [status EXCEPT !.state = "IDLE"]
    /\ push_task' = "task"
    /\ push_pc' = "interval"
    /\ push_last' = "start"
    /\ UNCHANGED <<exporting, cycles, stops, stop_raised, attempts, started, finished,
                   outcome, gauge, exported_total, points_sent, observations>>

\* _export_loop: the interval sleep ends, _should_export, and the call of
\* _export_once
IntervalElapsed ==
    /\ push_pc = "interval"
    /\ cycles < MaxCycles
    /\ cycles' = cycles + 1
    /\ IF exporting
       THEN /\ push_last' = "skip"
            /\ UNCHANGED <<push_pc, status, exporting, attempts, started>>
       ELSE /\ status' = [ResetFailed(status) EXCEPT !.state = "EXPORTING"]
            /\ exporting' = ExportingAtStart
            /\ push_pc' = "export"
            /\ push_last' = "export"
            /\ attempts' = 1
            /\ started' = started + 1
    /\ UNCHANGED <<push_task, stops, stop_raised, finished, outcome, gauge,
                   exported_total, points_sent, observations>>

\* _export_once ends: _handle_success, or _handle_failure up to its sleep;
\* where no sleep follows, the finally clauses of the loop and of every
\* _handle_failure on the stack clear _exporting, _sync_health_metrics runs
\* and the loop sleeps again
ExportOnce ==
    \E result \in ExportResults :
      \E batch \in IF result = "empty" THEN {<<>>} ELSE Batches :
        /\ push_pc = "export"
        /\ outcome' = result
        /\ finished' = finished + 1
        /\ observations' = observations + Observed(result)
        /\ exported_total' = exported_total + Incremented(result, batch)
        /\ points_sent' = points_sent + (IF result = "SUCCESS" THEN DataPoints(batch) ELSE 0)
        /\ IF ExportRaises(result)
           THEN /\ push_pc' = "crashed"
                /\ exporting' = FALSE
                /\ push_last' = "raised"
                /\ UNCHANGED <<status, gauge>>
           ELSE IF export_once(result)
           THEN /\ status' = handle_success(status, cycles)
                /\ gauge' = sync_health_metrics(status')
                /\ exporting' = FALSE
                /\ push_pc' = "interval"
                /\ push_last' = "success"
           ELSE /\ status' = handle_failure(status)
                /\ IF status'.state = "FAILED"
                   THEN /\ gauge' = sync_health_metrics(status')
                        /\ exporting' = FALSE
                        /\ push_pc' = "interval"
                        /\ push_last' = "failed"
                   ELSE /\ gauge' = gauge
                        /\ exporting' = exporting
                        /\ push_pc' = "backoff"
                        /\ push_last' = "retry"
        /\ UNCHANGED <<cycles, push_task, stops, stop_raised, attempts, started>>

\* _handle_failure: the backoff sleep ends and the export is tried again
BackoffElapsed ==
    /\ push_pc = "backoff"
    /\ status' = [status EXCEPT !.state = "EXPORTING"]
    /\ exporting' = ExportingAtStart
    /\ push_pc' = "export"
    /\ push_last' = "export"
    /\ attempts' = attempts + 1
    /\ started' = started + 1
    /\ UNCHANGED <<cycles, push_task, stops, stop_raised, finished, outcome, gauge,
                   exported_total, points_sent, observations>>

\* OTLPExporter.stop: nothing without a task; else the task is cancelled at
\* the await it stands at, its finally clauses clear _exporting, and the
\* exception of a task that had ended with one is raised by wait_for
Stop ==
    /\ stops < MaxStops
    /\ stops' = stops + 1
    /\ push_last' = "stop"
    /\ IF push_task = None
       THEN /\ stop_raised' = FALSE
            /\ UNCHANGED <<push_pc, exporting, push_task>>
       ELSE /\ stop_raised' = (push_pc = "crashed")
            /\ push_pc' = IF push_pc = "crashed" THEN "crashed" ELSE "stopped"
            /\ exporting' = FALSE
            /\ push_task' = TaskAfterStop
    /\ UNCHANGED <<status, cycles, attempts, started, finished, outcome, gauge,
                   exported_total, points_sent, observations>>

(***************************************************************************)
(* The /metrics handler beside the push loop, on one event loop.           *)
(***************************************************************************)
VARIABLES
    during       \* where the export task stood when /metrics was last served

serveVars == <<during>>

\* variant: the SDK export is called in the coroutine itself
TransmitInline == "inline"

\* _export_once: await asyncio.to_thread(self._do_sdk_export, batch)
Transmit == "thread"

\* the event loop runs no other task while a coroutine runs between two of
\* its awaits
LoopBlocked == push_pc = "export" /\ Transmit = "inline"

ServeIdle == during = "none"

\* MiniserverState(name=...) of LoxoneClient.__init__: no structure loaded
FreshState(i, conn) ==
    [name |-> <<"ms", i>>, connected |-> conn, last_update_ts |-> 0,
     controls |-> EmptyMap, rooms |-> EmptyMap, categories |-> EmptyMap,
     state_map |-> EmptyMap]

\* one Miniserver whose structure is not loaded, no filter, and an exporter
\* that has not started
ServeInit ==
    /\ ms_states \in {<<FreshState(1, c)>> : c \in BOOLEAN}
    /\ config = ExporterConfig({}, {}, {}, FALSE)
    /\ otlp_status = "IDLE"
    /\ response = NoResponse
    /\ during = "none"

\* GET /metrics served by the event loop that runs the export task
ScrapeDuringPush ==
    /\ ~LoopBlocked
    /\ Scrape
    /\ during' = push_pc
    /\ UNCHANGED pushVars

(***************************************************************************)
(* Specifications.                                                         *)
(***************************************************************************)
(***************************************************************************)
(* The readers of the mirror and the writer of one VALUE batch.            *)
(***************************************************************************)
BatchLen == 2

\* the records of one VALUE message
BatchEntries == [1..BatchLen -> StateIds \X Values]

VARIABLES
    \* the session runner: in its receive loop, inside _process_message, or
    \* back in the loop after the batch
    b_pc,
    \* the records of the batch not yet applied
    b_todo,
    \* history: the states of the mirror between two batches or loads
    b_done

batchVars == <<b_pc, b_todo, b_done>>

\* no batch is looked at
BatchIdle ==
    /\ b_pc = "none"
    /\ b_todo = <<>>
    /\ b_done = {}

\* variant: the loop over the records awaits between two records
ProcessYieldsBetweenRecords == TRUE

\* _process_message is a plain function: from the first record of a batch
\* to the assignment of last_update_ts there is no await
ProcessYields == FALSE

\* the session runner is at an await: the event loop can run a reader
WriterSuspended == b_pc # "applying" \/ ProcessYields

\* one connected Miniserver with a loaded structure, no filter
BatchInit ==
    /\ ms_states \in {<<m>> : m \in {x \in MiniserverStates(1) : x.connected}}
    /\ config = ExporterConfig({}, {}, {}, FALSE)
    /\ otlp_status = "IDLE"
    /\ response = NoResponse
    /\ b_pc = "receive"
    /\ b_todo = <<>>
    /\ b_done = {ms_states}

\* _connect_and_setup: the four maps are assigned, with no await between
\* the assignments
ReloadStructure ==
    /\ b_pc = "receive"
    /\ Cardinality(b_done) = 1
    /\ \E data \in Structures :
         LET parsed == parse_structure(data)
         IN ms_states' = <<[ms_states[1] EXCEPT !.controls = parsed.controls,
                                                !.rooms = parsed.rooms,
                                                !.categories = parsed.categories,
                                                !.state_map = parsed.state_map]>>
    /\ b_done' = b_done \cup {ms_states'}
    /\ UNCHANGED <<config, otlp_status, response, b_pc, b_todo>>

\* a VALUE message arrives: _process_message is entered
BeginBatch ==
    /\ b_pc = "receive"
    /\ \E entries \in BatchEntries : b_todo' = entries
    /\ b_pc' = "applying"
    /\ UNCHANGED <<scrapeVars, b_done>>

\* _process_message: the next record of the batch is applied; after the
\* last one last_update_ts is set and the function returns
ApplyRecord ==
    /\ b_pc = "applying"
    /\ LET ms == ms_states[1]
           rec == Head(b_todo)
           final == Len(b_todo) = 1
       IN /\ ms_states' =
                <<[ms EXCEPT !.controls = ApplyValue(ms.controls, ms.state_map,
                                                     rec[1], rec[2]),
                             !.last_update_ts = IF final THEN @ + 1 ELSE @]>>
          /\ b_pc' = IF final THEN "done" ELSE "applying"
          /\ b_done' = IF final THEN b_done \cup {ms_states'} ELSE b_done
    /\ b_todo' = Tail(b_todo)
    /\ UNCHANGED <<config, otlp_status, response>>

\* GET /metrics served by the event loop that runs the session runner
ScrapeDuringBatch ==
    /\ WriterSuspended
    /\ Scrape
    /\ UNCHANGED batchVars

\* GET /metrics served by the event loop that runs authenticate()
ScrapeDuringAuth ==
    /\ ~FetchBlocks
    /\ Scrape
    /\ UNCHANGED authVars

vars == <<clientVars, mainVars, authVars, scrapeVars, pushVars, serveVars, batchVars>>

notClient == <<mainVars, authVars, scrapeVars, pushVars, serveVars, batchVars>>

notMain == <<clientVars, authVars, scrapeVars, pushVars, serveVars, batchVars>>

notAuth == <<clientVars, mainVars, scrapeVars, pushVars, serveVars, batchVars>>

notScrape == <<clientVars, mainVars, authVars, pushVars, serveVars, batchVars>>

notPush == <<clientVars, mainVars, authVars, scrapeVars, serveVars, batchVars>>

Init == ClientInit /\ MainIdle /\ AuthIdle /\ ScrapeIdle /\ PushIdle /\ ServeIdle /\ BatchIdle

Next ==
    \/ ConnectOk /\ UNCHANGED notClient
    \/ ConnectFail /\ UNCHANGED notClient
    \/ AuthOk /\ UNCHANGED notClient
    \/ AuthFail /\ UNCHANGED notClient
    \/ StructureLoad /\ UNCHANGED notClient
    \/ StructureFail /\ UNCHANGED notClient
    \/ SubscribeOk /\ UNCHANGED notClient
    \/ SubscribeFail /\ UNCHANGED notClient
    \/ RecvIgnored /\ UNCHANGED notClient
    \/ RecvHeader /\ UNCHANGED notClient
    \/ RecvComplete /\ UNCHANGED notClient
    \/ RecvPayload /\ UNCHANGED notClient
    \/ RecvPayloadText /\ UNCHANGED notClient
    \/ LoopBack /\ UNCHANGED notClient
    \/ RecvClosed /\ UNCHANGED notClient
    \/ KeepaliveEnds /\ UNCHANGED notClient
    \/ KeepaliveCancelled /\ UNCHANGED notClient
    \/ CloseDone /\ UNCHANGED notClient
    \/ Wake /\ UNCHANGED notClient
    \/ Cancel /\ UNCHANGED notClient

Spec == Init /\ [][Next]_vars

\* the session runner with the passing of time in its receive loop
NextWatch ==
    \/ Next
    \/ Tick /\ UNCHANGED notClient

SpecWatch == Init /\ [][NextWatch]_vars

InitMain == MainInit /\ ClientInit /\ AuthIdle /\ ScrapeIdle /\ PushIdle /\ ServeIdle /\ BatchIdle

NextMain ==
    \/ Signal /\ UNCHANGED notMain
    \/ WaitForShutdown /\ UNCHANGED notMain
    \/ TaskCancelled /\ UNCHANGED notMain
    \/ HttpFail /\ UNCHANGED notMain
    \/ OnTaskDone /\ UNCHANGED notMain
    \/ ParentCancel /\ UNCHANGED notMain
    \/ GroupExit /\ UNCHANGED notMain

SpecMain == InitMain /\ [][NextMain]_vars

InitAuth == AuthInit /\ ClientInit /\ MainIdle /\ ScrapeIdle /\ PushIdle /\ ServeIdle /\ BatchIdle

NextAuth ==
    \/ TokenAuthStep /\ UNCHANGED notAuth
    \/ FetchPublicKey /\ UNCHANGED notAuth
    \/ HashAuthStep /\ UNCHANGED notAuth

SpecAuth == InitAuth /\ [][NextAuth]_vars

InitScrape == ScrapeInit /\ ClientInit /\ MainIdle /\ AuthIdle /\ PushIdle /\ ServeIdle /\ BatchIdle

NextScrape ==
    \/ Scrape /\ UNCHANGED notScrape
    \/ Healthz /\ UNCHANGED notScrape

SpecScrape == InitScrape /\ [][NextScrape]_vars

InitPush == PushInit /\ ClientInit /\ MainIdle /\ AuthIdle /\ ScrapeIdle /\ ServeIdle /\ BatchIdle

NextPush ==
    \/ Start /\ UNCHANGED notPush
    \/ IntervalElapsed /\ UNCHANGED notPush
    \/ ExportOnce /\ UNCHANGED notPush
    \/ BackoffElapsed /\ UNCHANGED notPush
    \/ Stop /\ UNCHANGED notPush

SpecPush == InitPush /\ [][NextPush]_vars

InitServe == PushInit /\ ServeInit /\ ClientInit /\ MainIdle /\ AuthIdle /\ BatchIdle

\* the push loop until it is cancelled, and the scrapes served meanwhile
NextServe ==
    \/ Start /\ UNCHANGED notPush
    \/ IntervalElapsed /\ UNCHANGED notPush
    \/ ExportOnce /\ UNCHANGED notPush
    \/ BackoffElapsed /\ UNCHANGED notPush
    \/ ScrapeDuringPush /\ UNCHANGED <<clientVars, mainVars, authVars, batchVars>>

SpecServe == InitServe /\ [][NextServe]_vars

InitHandshake ==
    AuthInit /\ ServeInit /\ ClientInit /\ MainIdle /\ PushIdle /\ BatchIdle

\* authenticate() of one session runner, and the scrapes served meanwhile
NextHandshake ==
    \/ TokenAuthStep /\ UNCHANGED notAuth
    \/ FetchPublicKey /\ UNCHANGED notAuth
    \/ HashAuthStep /\ UNCHANGED notAuth
    \/ ScrapeDuringAuth /\ UNCHANGED <<clientVars, mainVars, pushVars, serveVars, batchVars>>

SpecHandshake == InitHandshake /\ [][NextHandshake]_vars

notBatch == <<clientVars, mainVars, authVars, pushVars, serveVars>>

InitBatch == BatchInit /\ ClientInit /\ MainIdle /\ AuthIdle /\ PushIdle /\ ServeIdle

\* one session runner that loads a structure and applies a VALUE batch, and
\* the scrapes served meanwhile
NextBatch ==
    \/ ReloadStructure /\ UNCHANGED notBatch
    \/ BeginBatch /\ UNCHANGED notBatch
    \/ ApplyRecord /\ UNCHANGED notBatch
    \/ ScrapeDuringBatch /\ UNCHANGED notBatch

SpecBatch == InitBatch /\ [][NextBatch]_vars

TypeOK ==
    /\ pc \in {"connect", "auth", "structure", "subscribe", "receive", "payload",
               "processed", "teardown", "closing", "sleep", "done", "crashed"}
    /\ connected \in BOOLEAN
    /\ cancelled \in BOOLEAN
    /\ ktask \in {"none", "running", "cancelling", "finished", "failed"}
    /\ last_update_ts \in 0..now
    /\ now \in 0..MaxNow
    /\ Len(slept) <= MaxSleeps

(***************************************************************************)
(* Properties of the session runner.                                       *)
(***************************************************************************)
\* every control of the mirror, sub-controls of any depth included
RECURSIVE Descendants(_)
Descendants(ctrl) ==
    {ctrl} \cup UNION {Descendants(ctrl.sub_controls[i]) : i \in DOMAIN ctrl.sub_controls}

AllControls(ctrls) == UNION {Descendants(ctrls[u]) : u \in DOMAIN ctrls}

\* the (control uuid, state name, state uuid) triples of the mirror
Triples(ctrls) ==
    UNION {{<<c.uuid, n, c.states[n].state_uuid>> : n \in DOMAIN c.states} :
             c \in AllControls(ctrls)}

\* the StateEntry records a StateRef names
NamedEntries(ctrls, ref) ==
    {c.states[ref.state_name] :
       c \in {d \in AllControls(ctrls) :
                d.uuid = ref.control_uuid /\ ref.state_name \in DOMAIN d.states}}

AllFresh(ctrls) ==
    \A c \in AllControls(ctrls) : \A n \in DOMAIN c.states :
        c.states[n].value = None /\ c.states[n].text = None

\* C1: connected is true only from the successful end of setup to the exit
\* of the receive loop (its teardown in the finally block and the close of
\* the socket included); while run() connects, sets up, sleeps the backoff
\* or has ended, connected is false.
C1_ConnectedOnlyInReceiveLoop ==
    /\ connected => /\ pc \in {"receive", "payload", "processed", "teardown", "closing"}
                    /\ ktask # "none"
    /\ pc \in {"connect", "auth", "structure", "subscribe", "sleep", "done"}
          => ~connected

\* a receive loop has ended with the keepalive task dead by an exception
\* (the finally block did not clear the flag), and run() now sleeps
C1_Witness ==
    /\ pc = "sleep"
    /\ ktask = "failed"
    /\ last.op = "closed"
    /\ ~connected

\* C2: run() is never ended by a failure: no exception leaves it, it ends only
\* after a cancellation, every exception other than CancelledError that
\* leaves the connection block leads to the backoff sleep with connected
\* false, and the sleep is followed by a new connection attempt.
C2_RunSurvivesFailures ==
    /\ [](pc # "crashed")
    /\ [](pc = "done" => cancelled)
    /\ [](pc = "sleep" => ~connected)
    /\ [][(pc = "closing" /\ pending \notin {"none", "CancelledError"}
              /\ cancelled' = cancelled) => pc' = "sleep"]_vars
    /\ [][(pc = "connect" /\ pc' \notin {"connect", "auth"}
              /\ cancelled' = cancelled) => pc' = "sleep"]_vars
    /\ [][(pc = "sleep" /\ pc' # "sleep") => (pc' = "connect" \/ cancelled')]_vars

\* the exception of the dead keepalive task, raised in the finally block, has
\* been caught and run() sleeps the backoff
C2_Witness ==
    /\ last.op = "closed"
    /\ last.exc = KeepaliveError
    /\ pc = "sleep"
    /\ ~cancelled

\* C3: each sleep lasts the current backoff, which then becomes
\* min(backoff * 2, 30): backoff stays within [1, 30] and the sleeps since
\* the last successful setup are 1, 2, 4, 8, 16, 30, 30, ...
C3_BackoffSchedule ==
    /\ backoff \in BaseBackoff..MaxBackoff
    /\ \A k \in DOMAIN slept : slept[k] = Min(2^(k - 1), MaxBackoff)
    /\ backoff = Min(2^Len(slept), MaxBackoff)

C3_Witness ==
    /\ Len(slept) >= 7
    /\ slept[6] = MaxBackoff
    /\ slept[7] = MaxBackoff

\* C4: when setup completes, backoff is 1 whatever it was before, it stays 1
\* while connected, and the first sleep after the disconnect lasts 1.
C4_SetupResetsBackoff ==
    /\ connected => backoff = BaseBackoff
    /\ last.op = "setup" => (connected /\ backoff = BaseBackoff)
    /\ (pc = "sleep" /\ slept = <<>>) => backoff = BaseBackoff
    /\ (last.op = "wake" /\ Len(slept) = 1) => last.sleep = BaseBackoff

\* setup has completed after six failed cycles, with backoff at its maximum
C4_Witness ==
    /\ last.op = "setup"
    /\ last.backoff0 = MaxBackoff
    /\ last.slept0 >= 6
    /\ backoff = BaseBackoff

\* C5: once cancel() has been called on run(), at whatever await, run() starts
\* nothing new: it is in its teardown, closing the socket, or has ended with
\* connected false and no keepalive task running.
C5_CancelEndsRun ==
    cancelled =>
        /\ pc \in {"teardown", "closing", "done"}
        /\ pc = "done" => (~connected /\ ktask \notin {"running", "cancelling"})

\* C7: after a VALUE batch is applied, every StateEntry named through
\* state_map by a record of the batch (the last record of that state uuid)
\* holds the record's value, at any depth of sub-controls, and
\* last_update_ts has advanced.
C7_ValueBatchApplied ==
    (last.op = "process" /\ last.msg_type = MSG_VALUE_STATES /\ pc = "processed") =>
        /\ \A i \in DOMAIN last.entries :
              (/\ last.entries[i][1] \in DOMAIN state_map
               /\ \A j \in DOMAIN last.entries : j > i => last.entries[j][1] # last.entries[i][1])
              => /\ NamedEntries(controls, state_map[last.entries[i][1]]) # {}
                 /\ \A e \in NamedEntries(controls, state_map[last.entries[i][1]]) :
                       e.value = last.entries[i][2]
        /\ last.entries # <<>> => last_update_ts > last.ts0

C10_PayloadLengthChecked ==
    (last.op = "process" /\ last.split) => last.payload_len = last.exact_length

\* C32: last_update_ts changes only in a step taken while connected is
\* true, which leaves connected true: a cycle whose setup failed and the
\* steps after the receive loop has exited leave it as it is.
C32_UpdateOnlyWhileConnected ==
    [][last_update_ts' # last_update_ts => connected /\ connected']_vars

\* a VALUE batch has advanced last_update_ts a second time, while
\* connected
C32_Witness ==
    /\ last.op = "process"
    /\ pc = "processed"
    /\ last_update_ts > last.ts0
    /\ last.ts0 > 0
    /\ connected

\* C34: the 8-byte frame that follows an estimated header (the corrected
\* header) is consumed as a header: it is not decoded as the payload of the
\* estimated header.
C34_CorrectedHeaderConsumed ==
    (last.op = "process" /\ last.split /\ last.estimated) =>
        last.payload_len # HEADER_SIZE

\* C35: after a TEXT batch is applied, every StateEntry named through
\* state_map by a record of the batch (the last record of that state uuid)
\* holds the record's text, at any depth of sub-controls.
C35_TextBatchApplied ==
    (last.op = "process" /\ last.msg_type = MSG_TEXT_STATES /\ pc = "processed") =>
        \A i \in DOMAIN last.entries :
           (/\ last.entries[i][1] \in DOMAIN state_map
            /\ \A j \in DOMAIN last.entries : j > i => last.entries[j][1] # last.entries[i][1])
           => /\ NamedEntries(controls, state_map[last.entries[i][1]]) # {}
              /\ \A e \in NamedEntries(controls, state_map[last.entries[i][1]]) :
                    e.text = last.entries[i][2]

\* C36: a binary frame shorter than a header, or a text frame in the place
\* of an announced payload, ends the cycle: the receive loop is left.
C36_ViolationEndsCycle ==
    (last.op = "ignored" /\ last.frame # "text") => pc \notin {"receive", "payload"}

\* C38: wherever the session runner is suspended, every StateRef of
\* state_map names a control or sub-control of the controls map and a state
\* name of that control; and a step at the structure download that loads
\* nothing (the download or the parse failed, or the task was cancelled)
\* leaves both maps as they were.
C38_MapsConsistent ==
    [][/\ \A id \in DOMAIN state_map' :
             NamedEntries(controls', state_map'[id]) # {}
       /\ (pc = "structure" /\ last'.op # "load") =>
             UNCHANGED <<controls, state_map>>]_vars

\* after a reconnect the structure file was no JSON: the maps of the
\* previous connection are in place
C38_Witness ==
    /\ pending = "ValueError"
    /\ DOMAIN state_map # {}
    /\ DOMAIN controls # {}
    /\ ~connected

\* C11: in the receive loop no more than 60 s pass without a frame: by
\* then the loop has been aborted.
C11_SilentLoopAborts ==
    pc \in {"receive", "payload"} => idle <= keepalive_timeout

\* C12: the first OUT_OF_SERVICE message after a successful setup is
\* followed by the next connection attempt without a backoff sleep.
C12_OutOfServiceSkipsBackoff ==
    (out_of_service /\ slept = <<>>) => pc # "sleep"

\* C15: when the structure loaded over a plaintext connection reports
\* miniserverType 2, the cycle is aborted: the runner does not go on to
\* subscribe and is never connected over ws:// to such a Miniserver.
C15_Gen2AbortsPlaintext ==
    (structure.msInfo.miniserverType = 2 /\ Scheme = "ws") =>
        /\ last.op = "load" => pc # "subscribe"
        /\ ~connected

(***************************************************************************)
(* Properties of authenticate().                                           *)
(***************************************************************************)
Rank(strategy) == CHOOSE i \in 1..3 : Strategies[i] = strategy

Attempted == {a_log[i].strategy : i \in DOMAIN a_log}

\* the attempts authenticate() may make with this host argument
Applicable == {t \in {"token_ws", "token_http", "hash"} : t = "token_http" => a_host}

\* C13: the attempts are made in the order token auth with the in-band key,
\* token auth with the HTTP-fetched key (only with a host), hash auth; an
\* attempt is made only after every earlier one failed and is made when they
\* all did; True is returned by the first attempt that succeeds, and
\* AuthenticationError is raised only by the failure of the hash attempt.
C13_StrategiesInOrder ==
    /\ a_log[1].strategy = "token_ws"
    /\ \A i, j \in DOMAIN a_log :
          i < j => Rank(a_log[i].strategy) <= Rank(a_log[j].strategy)
    /\ Attempted \subseteq Applicable
    /\ \A t \in Applicable :
          t \in Attempted <=>
              \A e \in Applicable : Rank(e) < Rank(t) => a_failed[e] # "none"
    /\ a_result = "True" =>
          /\ a_failed[a_strategy] = "none"
          /\ a_log[Len(a_log)] = [strategy |-> a_strategy, cmd |-> a_log[Len(a_log)].cmd,
                                  reply |-> "ok"]
          /\ \A t \in Attempted : Rank(t) <= Rank(a_strategy)
    /\ a_result = "AuthenticationError" =>
          /\ a_strategy = "hash"
          /\ \A t \in Applicable : a_failed[t] # "none"
    /\ a_failed["hash"] # "none" => a_result = "AuthenticationError"

\* with a host, all three attempts have failed
C13_Witness ==
    /\ a_host
    /\ a_result = "AuthenticationError"
    /\ Attempted = {"token_ws", "token_http", "hash"}

\* C14: in a token attempt gettoken is sent only right after getjwt got a
\* non-success code, and once; a non-success code for gettoken ends the
\* attempt with AuthenticationError; after a success of getjwt the attempt
\* returns and gettoken is not sent.
C14_GetTokenAfterJwtFailed ==
    /\ \A i \in DOMAIN a_log :
          a_log[i].cmd = "gettoken" =>
              /\ i > 1
              /\ a_log[i - 1] = [strategy |-> a_log[i].strategy, cmd |-> "getjwt",
                                 reply |-> "fail"]
              /\ a_log[i].reply = "fail" =>
                     a_failed[a_log[i].strategy] = "AuthenticationError"
    /\ \A t \in {"token_ws", "token_http"} :
          Cardinality({i \in DOMAIN a_log :
                         a_log[i].cmd = "gettoken" /\ a_log[i].strategy = t}) <= 1
    /\ \A i \in DOMAIN a_log :
          (a_log[i].cmd = "getjwt" /\ a_log[i].reply = "ok") =>
              /\ i = Len(a_log)
              /\ a_result = "True"

\* both token attempts have sent gettoken, the first after a failed getjwt
\* got a non-success code, the second succeeded
C14_Witness ==
    /\ a_result = "True"
    /\ a_strategy = "token_http"
    /\ a_log[Len(a_log)].cmd = "gettoken"
    /\ \E i \in DOMAIN a_log :
          a_log[i] = [strategy |-> "token_ws", cmd |-> "gettoken", reply |-> "fail"]

\* C37: while authenticate() waits for the HTTP response with the public
\* key, the event loop can run another task: the /metrics handler can be
\* served.
C37_FetchIsSuspensionPoint == a_pc = "http_getPublicKey" => ENABLED ScrapeDuringAuth

\* C30: when a VALUE batch has been applied, applying it again leaves every
\* StateEntry as it is, and the application touches neither the maps nor
\* connected.
C30_ValueBatchIdempotent ==
    [][(last'.op = "process" /\ last'.msg_type = MSG_VALUE_STATES) =>
          /\ ApplyValues(controls', state_map', last'.entries) = controls'
          /\ UNCHANGED <<rooms, categories, state_map, connected>>]_vars

\* a VALUE batch with a record for a known state has been applied
C30_Witness ==
    /\ last.op = "process"
    /\ last.msg_type = MSG_VALUE_STATES
    /\ pc = "processed"
    /\ last.entries # <<>>
    /\ last.entries[1][1] \in DOMAIN state_map
    /\ last_update_ts > last.ts0

(***************************************************************************)
(* Properties of the collector and of /healthz.                            *)
(***************************************************************************)
\* a control with its ancestors: <<top-level control, ..., control>>
RECURSIVE LineagesOf(_)
LineagesOf(ctrl) ==
    {<<ctrl>>} \cup
    UNION {{<<ctrl>> \o l : l \in LineagesOf(ctrl.sub_controls[i])} :
             i \in DOMAIN ctrl.sub_controls}

Lineages(ctrls) == UNION {LineagesOf(ctrls[u]) : u \in DOMAIN ctrls}

\* a filter of the configuration excludes the control
FilterExcludes(cfg, ms, c) ==
    \/ c.room_uuid \in DOMAIN ms.rooms /\ ms.rooms[c.room_uuid].name \in cfg.exclude_rooms
    \/ c.type \in cfg.exclude_types
    \/ \E pattern \in cfg.exclude_names : fnmatch(c.name, pattern)

\* the loxone_control_value sample of state n of control c
SampleOf(ms, c, n) ==
    [labels |-> <<ms.name, c.name,
                  IF c.room_uuid \in DOMAIN ms.rooms THEN ms.rooms[c.room_uuid].name ELSE "",
                  IF c.cat_uuid \in DOMAIN ms.categories
                  THEN ms.categories[c.cat_uuid].name ELSE "",
                  c.type, n>>,
     value |-> c.states[n].value]

\* the (Miniserver, lineage, state name) whose value is to be exported:
\* the value is present, the control is not text-only and no filter
\* excludes it or an ancestor of it
Exportable ==
    {t \in UNION {{<<i, l, n>> : l \in Lineages(ms_states[i].controls),
                                 n \in {"active", "value", "tempActual", "textAndIcon"}} :
                    i \in DOMAIN ms_states} :
        LET c == t[2][Len(t[2])]
        IN /\ t[3] \in DOMAIN c.states
           /\ c.states[t[3]].value # None
           /\ ~c.is_text_only
           /\ \A k \in DOMAIN t[2] : ~FilterExcludes(config, ms_states[t[1]], t[2][k])}

\* C16: every loxone_control_value sample is the sample of a state with a
\* value of a control that is not text-only and that no filter excludes,
\* neither it nor a control above it, with the labels (miniserver, name,
\* room name or empty, category name or empty, type, state name).
C16_SamplesNotExcluded ==
    response.handler = "collect" =>
        \A smp \in BagToSet(response.gauge) :
            \E t \in Exportable :
                smp = SampleOf(ms_states[t[1]], t[2][Len(t[2])], t[3])

\* the sub-control of a control that a name filter excludes has a value,
\* and a sample of another control is emitted
C16_Witness ==
    /\ response.handler = "collect"
    /\ response.gauge # EmptyBag
    /\ \E i \in DOMAIN ms_states : \E l \in Lineages(ms_states[i].controls) :
          /\ Len(l) = 2
          /\ FilterExcludes(config, ms_states[i], l[1])
          /\ ~FilterExcludes(config, ms_states[i], l[2])
          /\ \E n \in DOMAIN l[2].states : l[2].states[n].value # None

\* C17: every state with a value of a control that is not text-only and
\* that no filter excludes (neither it nor a control above it) has exactly
\* one loxone_control_value sample.
C17_EveryValueSampled ==
    response.handler = "collect" =>
        \A t \in Exportable :
            CopiesIn(SampleOf(ms_states[t[1]], t[2][Len(t[2])], t[3]), response.gauge) = 1

\* C18: a call of collect() or of the /healthz handler leaves every
\* MiniserverState as it was.
C18_HandlersReadOnly ==
    [][response' # response => ms_states' = ms_states]_vars

\* collect() has run with a filter that excludes a control that has a value
C18_Witness ==
    /\ response.handler = "collect"
    /\ \E i \in DOMAIN ms_states : \E u \in DOMAIN ms_states[i].controls :
          /\ FilterExcludes(config, ms_states[i], ms_states[i].controls[u])
          /\ \E n \in DOMAIN ms_states[i].controls[u].states :
                ms_states[i].controls[u].states[n].value # None

\* C19: /healthz answers healthy (200) iff every Miniserver is connected
\* and the OTLP state is not FAILED, degraded (200) iff some but not all are
\* connected or all are and the OTLP state is FAILED, unhealthy (503) iff
\* none is connected.
C19_HealthStatus ==
    response.handler = "healthz" =>
        LET all == \A i \in DOMAIN ms_states : ms_states[i].connected
            none == \A i \in DOMAIN ms_states : ~ms_states[i].connected
            failed == otlp_status = "FAILED"
        IN /\ response.status = "healthy" <=> (all /\ ~failed)
           /\ response.status = "degraded" <=> ((~all /\ ~none) \/ (all /\ failed))
           /\ response.status = "unhealthy" <=> none
           /\ response.status \in {"healthy", "degraded"} => response.http_status = 200
           /\ response.status = "unhealthy" => response.http_status = 503

\* two Miniservers, one of them connected: degraded
C19_Witness ==
    /\ response.handler = "healthz"
    /\ response.status = "degraded"
    /\ Len(ms_states) = 2
    /\ ms_states[1].connected
    /\ ~ms_states[2].connected
    /\ otlp_status = "IDLE"

\* C33: every projection a scrape has computed is the projection of a state
\* the mirror had between two batches or loads: none shows a part of a
\* VALUE batch or of a structure replacement.
C33_BatchAtomicForReaders ==
    response.handler = "collect" =>
        \E c \in b_done : response = collect(c, config)

\* a scrape served after the batch shows the batch, which changed the
\* projection
C33_Witness ==
    /\ b_pc = "done"
    /\ response = collect(ms_states, config)
    /\ \A c \in b_done \ {ms_states} : response # collect(c, config)

\* C31: on every scrape, the exporter_controls_exported sample of a
\* Miniserver is at most its exporter_controls_discovered sample.
C31_ExportedAtMostDiscovered ==
    response.handler = "collect" =>
        \A i \in DOMAIN response.exported :
            response.exported[i][2] <= response.discovered[i][2]

\* C40: the controls_exported of a Miniserver in /healthz is the
\* exporter_controls_exported sample that collect() yields for the same
\* states and configuration.
C40_HealthzExportedIsGauge ==
    response.handler = "healthz" =>
        \A i \in DOMAIN ms_states :
            response.miniservers[i].controls_exported
                = collect(ms_states, config).exported[i][2]

(***************************************************************************)
(* Properties of the OTLP push loop.                                       *)
(***************************************************************************)
\* C39: whenever the export loop sleeps for its next tick, _exporting is
\* false, no attempt is in flight, the state is IDLE or FAILED, and
\* consecutive_failures is 0 when IDLE and 10 when FAILED.
C39_QuietWhileSleeping ==
    push_pc = "interval" =>
        /\ ~exporting
        /\ started = finished
        /\ status.state \in {"IDLE", "FAILED"}
        /\ status.state = "IDLE" => status.consecutive_failures = 0
        /\ status.state = "FAILED" => status.consecutive_failures = MAX_FAILURES

\* the loop sleeps again after a cycle that slept its backoffs and then
\* succeeded
C39_Witness ==
    /\ push_pc = "interval"
    /\ push_last = "success"
    /\ attempts > 1
    /\ status.state = "IDLE"

\* C20: consecutive_failures is within [0, 10] in every state of the push
\* loop, it is 0 right after a successful export, and it is 10 whenever the
\* state is FAILED.
C20_FailuresBounded ==
    /\ status.consecutive_failures \in 0..10
    /\ push_last = "success" => status.consecutive_failures = 0
    /\ status.state = "FAILED" => status.consecutive_failures = 10

\* the export has failed ten times in a row, the last time after a backoff
\* of 256 seconds, in the second cycle
C20_Witness ==
    /\ status.state = "FAILED"
    /\ push_last = "failed"
    /\ status.current_backoff_seconds = 256
    /\ cycles = 2

\* C21: when consecutive_failures reaches 10 the state is FAILED and no
\* export attempt is in flight or pending; the only step that starts an
\* attempt from FAILED is the next tick, which leaves the counter at 0 and
\* an attempt under way.
C21_FailedLatchesUntilTick ==
    [][/\ status'.consecutive_failures = 10 =>
            status'.state = "FAILED" /\ push_pc' \notin {"export", "backoff"}
       /\ (status.state = "FAILED" /\ started' # started) =>
            /\ cycles' = cycles + 1
            /\ ResetFailed(status).state = "IDLE"
            /\ status'.consecutive_failures = 0
            /\ status'.state = "EXPORTING"
            /\ push_pc' = "export"]_vars

\* the tick after ten failed attempts has reset the counter and started the
\* eleventh attempt
C21_Witness ==
    /\ cycles = 2
    /\ finished = 10
    /\ started = 11
    /\ push_pc = "export"
    /\ status.consecutive_failures = 0

\* C22: at most two export attempts are made per scheduled tick, the first
\* and one inline retry.
C22_OneInlineRetry == attempts <= 2

\* C23: at most one export attempt is in flight, the overlap guard is set
\* for as long as a cycle runs (its backoff sleep and retries included), and
\* a tick that finds the guard set starts no attempt.
C23_OneCycleInFlight ==
    [][/\ started' - finished' <= 1
       /\ push_pc' \in {"export", "backoff"} => exporting'
       /\ (cycles' # cycles /\ exporting) => started' = started]_vars

\* a cycle is in its backoff sleep after a failed attempt
C23_Witness ==
    /\ push_pc = "backoff"
    /\ exporting
    /\ started = 1
    /\ finished = 1

\* C24: whatever the attempts have met, the export task is at one of the
\* awaits of its loop for as long as it has not been cancelled.
C24_LoopSurvivesOutcomes ==
    push_task # None => push_pc \in {"interval", "export", "backoff"}

\* an attempt has met an exception and the loop is in its backoff sleep
C24_Witness ==
    /\ outcome = "error"
    /\ push_pc = "backoff"
    /\ push_task # None

\* C25: while a transmit is in flight a scrape can be served: the /metrics
\* handler can run and complete in every state where the export task awaits
\* the SDK export.
C25_ScrapeDuringTransmit == push_pc = "export" => ENABLED ScrapeDuringPush

\* a scrape was served while the export task awaited the SDK export
C25_Witness ==
    /\ during = "export"
    /\ response.handler = "collect"
    /\ push_pc = "export"

\* C26: once set, the otlp_export_status gauge is the code of the state
\* that get_status() reports.
C26_GaugeIsState == gauge # 0 => gauge = StateCode(status.state)

\* C27: otlp_exported_metrics_total is the sum of the data points sent in
\* the successful attempts.
C27_TotalIsDataPoints == exported_total = points_sent

\* C28: every export attempt that has ended has added one observation to
\* otlp_export_duration_seconds.
C28_OneObservationPerAttempt == observations = finished

\* C29: a call of stop() raises nothing and leaves the task handle None; a
\* call without a task changes nothing; and no export attempt starts while
\* the handle is None.
C29_StopIdempotent ==
    [][/\ stops' # stops =>
            /\ push_task' = None
            /\ ~stop_raised'
            /\ push_task = None =>
                  UNCHANGED <<push_pc, status, exporting, cycles, attempts, started,
                              finished, gauge, exported_total, observations>>
       /\ push_task' = None => started' = started]_vars

\* stop() has been called twice, the first time during an export attempt
C29_Witness ==
    /\ stops = 2
    /\ push_pc = "stopped"
    /\ started = finished + 1
    /\ push_task = None

(***************************************************************************)
(* Properties of the supervisor.                                           *)
(***************************************************************************)
\* C6: once the shutdown event is set and _wait_for_shutdown has raised and
\* the task group has seen that task end, every other task is done or has
\* its cancellation requested (so that the group can exit and _run() end).
C6_ShutdownCancelsAll ==
    (shutdown_event /\ shutdownRaised /\ seen[Waiter]) =>
        \A t \in Tasks \ {Waiter} : task[t] # "running" \/ cancelReq[t]

====
